---- MODULE Spec2Model ----
(***************************************************************************)
(* Credit ledger of the voice-translator service (src/src/main.py).        *)
(*                                                                         *)
(* The ledger lives in a remote Firestore database that every request      *)
(* handler reaches through the module-level client `db`.  The database is  *)
(* shared by all requests and by every server process started on it, so    *)
(* each call on `db` (get / set / update / add) is one atomic step of the  *)
(* model and the steps of different requests interleave freely.  Whatever  *)
(* a handler computes between two store calls is folded into the step of   *)
(* the store call that follows or precedes it.                             *)
(*                                                                         *)
(* Minutes are floats in the source; the model keeps them as integers      *)
(* (whole minutes), which is exact for the values used here.               *)
(***************************************************************************)
EXTENDS Integers, Sequences, FiniteSets, TLC

(***************************************************************************)
(* Bounds of the model.                                                    *)
(***************************************************************************)
\* number of request slots that can be in flight at the same time
NumProcs == 2
\* number of requests started in one behaviour when they are served in parallel
MaxRequests == 2
\* number of requests started in one behaviour when they are served in sequence
MaxSeqRequests == 3
\* number of external calls that fail, plus handlers that die, in one behaviour
MaxFaults == 1
MaxProviderFaults == 2

Procs == 1..NumProcs
Users == {"u1", "u2"}
TxIds == {"T1", "T2"}
\* amounts passed to deduct_credits: 18 = 0.6 * 30, 12 + 18 = 30, 31 > 30,
\* and one above the balance of an unlimited account
DebitAmounts == {12, 18, 31, 1000000}
\* cost_minutes of a translation: the duration, at most MAX_RECORDING_MINUTES,
\* times cost per minute / 0.006, which is at most 1.5
CostMinutes == {2, 3}

(***************************************************************************)
(* Program constants.                                                      *)
(***************************************************************************)
FREE_MINUTES == 30
UNLIMITED_BALANCE == 999999
UNLIMITED_MINUTES == -1
ADMIN_EMAIL == "admin@gmail.com"
\* Config.PACKAGES: product id -> minutes
PACKAGES ==
  [p \in {"com.voicetranslator.starter", "com.voicetranslator.unlimited"} |->
     IF p = "com.voicetranslator.starter" THEN 300 ELSE UNLIMITED_MINUTES]
\* what a purchase request may carry: (product_id, minutes); `minutes` is an
\* int field of the request body that the handler neither ties to the product
\* nor checks for its sign
IapInputs ==
  { <<"com.voicetranslator.starter", 300>>,
    <<"com.voicetranslator.unlimited", UNLIMITED_MINUTES>>,
    <<"com.voicetranslator.starter", UNLIMITED_MINUTES>>,
    <<"com.voicetranslator.starter", -300>>,
    <<"com.example.unknown", 300>> }
PackageTypes == {"pack"}

\* the identity service: the email registered for a user id
EmailOf == [u \in Users |-> IF u = "u2" THEN ADMIN_EMAIL ELSE "user@example.com"]
\* get_user_email_from_uid: the registered email, or "" when the lookup fails
LookupResults(u) == {EmailOf[u], ""}

(***************************************************************************)
(* Documents of the `users` collection.  A Python dict with optional keys: *)
(* `email` is the one key that documents written by add_credits lack       *)
(* (value "absent").  subscription_expiry is None ("none") or a date 365   *)
(* days after the write ("plus365").                                       *)
(***************************************************************************)
NoDoc ==
  [exists |-> FALSE, email |-> "absent", remaining_minutes |-> 0,
   total_purchased_minutes |-> 0, used_minutes |-> 0, is_admin |-> FALSE,
   is_premium |-> FALSE, is_unlimited |-> FALSE, subscription_type |-> "free",
   subscription_expiry |-> "none"]

\* variant: every new account gets the free allotment
InitialCreditsAllFree(user_email) ==
  [exists |-> TRUE, email |-> user_email,
   remaining_minutes |-> FREE_MINUTES, total_purchased_minutes |-> 0,
   used_minutes |-> 0, is_admin |-> (user_email = ADMIN_EMAIL),
   is_premium |-> FALSE, is_unlimited |-> FALSE,
   subscription_type |-> "free", subscription_expiry |-> "none"]

\* initial_credits of get_user_credits
InitialCredits(user_email) ==
  LET is_admin == (user_email = ADMIN_EMAIL) IN
  [exists |-> TRUE, email |-> user_email,
   remaining_minutes |-> IF is_admin THEN UNLIMITED_BALANCE ELSE FREE_MINUTES,
   total_purchased_minutes |-> IF is_admin THEN UNLIMITED_BALANCE ELSE 0,
   used_minutes |-> 0, is_admin |-> is_admin, is_premium |-> FALSE,
   is_unlimited |-> is_admin,
   subscription_type |-> IF is_admin THEN "unlimited" ELSE "free",
   subscription_expiry |-> "none"]

\* the document add_credits creates for a user without one
NewPurchasedDoc(minutes_to_add) ==
  LET is_unlimited == (minutes_to_add = UNLIMITED_MINUTES) IN
  [exists |-> TRUE, email |-> "absent",
   remaining_minutes |-> IF is_unlimited THEN UNLIMITED_BALANCE ELSE minutes_to_add,
   total_purchased_minutes |-> IF is_unlimited THEN UNLIMITED_BALANCE ELSE minutes_to_add,
   used_minutes |-> 0, is_admin |-> FALSE, is_premium |-> TRUE,
   is_unlimited |-> is_unlimited,
   subscription_type |-> IF is_unlimited THEN "unlimited" ELSE "premium",
   subscription_expiry |-> IF is_unlimited THEN "none" ELSE "plus365"]

\* variant: the purchase replaces what the account held
CreditedDocFromScratch(doc, user_data, minutes_to_add) ==
  [NewPurchasedDoc(minutes_to_add) EXCEPT !.email = doc.email]

\* the update add_credits applies to an existing document; user_data is the
\* snapshot the handler read before, doc the document the update lands on
CreditedDoc(doc, user_data, minutes_to_add) ==
  IF minutes_to_add = UNLIMITED_MINUTES
  THEN [doc EXCEPT !.remaining_minutes = UNLIMITED_BALANCE,
                   !.total_purchased_minutes =
                       user_data.total_purchased_minutes + UNLIMITED_BALANCE,
                   !.is_premium = TRUE, !.is_unlimited = TRUE,
                   !.subscription_type = "unlimited",
                   !.subscription_expiry = "none"]
  ELSE [doc EXCEPT !.remaining_minutes = user_data.remaining_minutes + minutes_to_add,
                   !.total_purchased_minutes =
                       user_data.total_purchased_minutes + minutes_to_add,
                   !.is_premium = TRUE, !.is_unlimited = FALSE,
                   !.subscription_type = "premium",
                   !.subscription_expiry = "plus365"]

\* variant: used_minutes is left as it is
DebitedDocBalanceOnly(doc, user_data, minutes_used) ==
  [doc EXCEPT !.remaining_minutes = user_data.remaining_minutes - minutes_used]

\* the update deduct_credits applies
DebitedDoc(doc, user_data, minutes_used) ==
  [doc EXCEPT !.remaining_minutes = user_data.remaining_minutes - minutes_used,
              !.used_minutes = user_data.used_minutes + minutes_used]

\* variant: the whole record read is written back, with the new fields
PatchedDocWholeRecord(doc, user_data, user_email) ==
  [user_data EXCEPT !.email = user_email,
                    !.is_admin = (user_email = ADMIN_EMAIL)]

\* variant: the email is left out of the update
PatchedDocNoEmail(doc, user_data, user_email) ==
  [doc EXCEPT !.is_admin = (user_email = ADMIN_EMAIL),
              !.is_premium = user_data.is_premium,
              !.is_unlimited = user_data.is_unlimited,
              !.subscription_type = user_data.subscription_type,
              !.subscription_expiry = user_data.subscription_expiry]

\* update_data of get_user_credits for a document without `email`
PatchedDoc(doc, user_data, user_email) ==
  [doc EXCEPT !.email = user_email,
              !.is_admin = (user_email = ADMIN_EMAIL),
              !.is_premium = user_data.is_premium,
              !.is_unlimited = user_data.is_unlimited,
              !.subscription_type = user_data.subscription_type,
              !.subscription_expiry = user_data.subscription_expiry]

\* what process_audio_translation holds between its steps: `credits`, the
\* dict its first get_user_credits returned (credits_error: the dict is the
\* one of the except clause, with the key "error"), the bool deduct_credits
\* returned ("none" before the call and when it is not called) and
\* credits_used; phase is the part of the function the slot is in
(***************************************************************************)
(* The model configuration: QualityTier, AudioModel, TranslationModel and  *)
(* ModelConfig.  Rates are in thousandths of a dollar per minute.          *)
(***************************************************************************)
QualityTiers == {"basic", "premium", "ultra"}
AudioModels == {"whisper-1", "gpt-4o-transcribe", "gpt-4o-mini-transcribe"}
TranslationModels == {"gpt-4o", "gpt-4o-mini", "gpt-4-turbo"}

\* ModelConfig.__init__
DefaultConfig ==
  [audio_model |-> "gpt-4o-transcribe", translation_model |-> "gpt-4o-mini",
   quality_tier |-> "premium", enable_fallback |-> TRUE]

\* variant: the ultra tier keeps the translation model of the premium tier
set_tier_mini(cfg, tier) ==
  [quality_tier |-> tier,
   audio_model |-> IF tier = "basic" THEN "whisper-1" ELSE "gpt-4o-transcribe",
   translation_model |-> "gpt-4o-mini",
   enable_fallback |-> cfg.enable_fallback]

\* ModelConfig.set_tier
set_tier(cfg, tier) ==
  [quality_tier |-> tier,
   audio_model |-> IF tier = "basic" THEN "whisper-1"
                   ELSE IF tier \in {"premium", "ultra"} THEN "gpt-4o-transcribe"
                   ELSE cfg.audio_model,
   translation_model |-> IF tier \in {"basic", "premium"} THEN "gpt-4o-mini"
                         ELSE IF tier = "ultra" THEN "gpt-4o"
                         ELSE cfg.translation_model,
   enable_fallback |-> cfg.enable_fallback]

\* the dict audio_cost of get_cost_per_minute
audio_cost(audio_model) ==
  IF audio_model = "gpt-4o-mini-transcribe" THEN 3 ELSE 6

\* the dict translation_cost of get_cost_per_minute
translation_cost(translation_model) ==
  IF translation_model = "gpt-4o-mini" THEN 1
  ELSE IF translation_model = "gpt-4o" THEN 3
  ELSE 2

\* ModelConfig.get_cost_per_minute
get_cost_per_minute(cfg) ==
  audio_cost(cfg.audio_model) + translation_cost(cfg.translation_model)

\* the rate the cost is normalised to (0.006), in thousandths
BASE_COST == 6

\* Config.MAX_RECORDING_MINUTES (2.0), in thousandths of a minute
MAX_RECORDING_MINUTES == 2000

\* recording lengths, in thousandths of a minute: estimate_audio_duration
\* returns 0.01 at least; the lengths are multiples of 0.006 so that the cost
\* is a whole number of thousandths, and one is above the limit
Durations == {12, 600, 1998, 2004}

\* cost_minutes of process_audio_translation, in thousandths of a minute
NormalizedCost(duration_minutes, cost_per_minute) ==
  (duration_minutes * cost_per_minute) \div BASE_COST

\* no cost was computed yet
NoQuote == [duration_minutes |-> 0, cost_per_minute |-> 0, cost_minutes |-> 0,
            tier |-> "none", too_long |-> FALSE,
            audio_model |-> "none", translation_model |-> "none"]

\* a body of POST /config with no field
NoConfigRequest ==
  [quality_tier |-> "none", audio_model |-> "none", translation_model |-> "none",
   enable_fallback |-> "none"]

\* the bodies of POST /config: a quality tier, an audio model, a translation
\* model or enable_fallback ("none": the field is left out)
ConfigRequests ==
  {[NoConfigRequest EXCEPT !.quality_tier = t] : t \in QualityTiers}
  \cup {[NoConfigRequest EXCEPT !.audio_model = a] : a \in AudioModels}
  \cup {[NoConfigRequest EXCEPT !.translation_model = m] : m \in TranslationModels}
  \cup {[NoConfigRequest EXCEPT !.enable_fallback = b] : b \in {"true", "false"}}

\* no configuration was read yet
NoConfig == [audio_model |-> "none", translation_model |-> "none",
             quality_tier |-> "none", enable_fallback |-> FALSE]

\* cost_config is model_config as cost_minutes was computed on it, used_config
\* the models the provider calls were made with and the tier then in force;
\* temp_file is the file save_audio_file returned (0: none yet), fallbacks
\* the number of calls of the whisper-1 fallback
NoTr == [phase |-> "none", credits |-> NoDoc, credits_error |-> FALSE,
         deducted |-> "none", credits_used |-> 0,
         cost_config |-> NoConfig, used_config |-> NoConfig,
         temp_file |-> 0, fallbacks |-> 0]

NoTx == [exists |-> FALSE, user_id |-> "", product_id |-> "", minutes_added |-> 0]
\* a request; `after` is the number of requests answered before it arrived
NoReq == [op |-> "none", user_id |-> "", minutes |-> 0, product_id |-> "",
          transaction_id |-> "", package_type |-> "", after |-> 0,
          quality_tier |-> "none", duration_minutes |-> 0, id |-> 0]

VARIABLES
  users,             \* collection users: user id -> document
  usage_logs,        \* collection usage_logs, in order of insertion
  purchase_logs,     \* collection purchase_logs, in order of insertion
  iap_transactions,  \* collection iap_transactions: transaction id -> document
  pc,                \* position of each request slot in its handler
  req,               \* the request a slot is serving
  loc,               \* user_data: the document the handler read
  hist,              \* the requests answered so far with their answers, in order
  started,           \* number of requests started so far
  init_users,        \* the users collection of the initial state
  tx_credits,        \* per transaction id: account writes made by add_credits
  tx_logs,           \* per transaction id: purchase_logs entries appended
  tx_records,        \* per transaction id: writes of its iap_transactions document
  faults,            \* number of failed external calls and dead handlers so far
  tr,                \* locals of process_audio_translation, per slot
  model_config,      \* the global model_config of the server process
  quote,             \* the last cost computed, with what it was computed from
  temp_files         \* the files in TEMP_DIR, each named by the request that made it

vars == <<users, usage_logs, purchase_logs, iap_transactions, pc, req, loc,
          hist, started, init_users, tx_credits, tx_logs, tx_records, faults,
          tr, model_config, quote, temp_files>>

config == <<model_config, quote, temp_files>>

store == <<users, usage_logs, purchase_logs, iap_transactions>>

\* documents the code can have left for a user before the behaviour starts
InitDocs(u) ==
  { NoDoc, InitialCredits(EmailOf[u]), NewPurchasedDoc(UNLIMITED_MINUTES) }

\* the collections but users, and the request slots, before the first request
InitRest ==
  /\ usage_logs = <<>>
  /\ purchase_logs = <<>>
  /\ iap_transactions = [t \in TxIds |-> NoTx]
  /\ pc = [p \in Procs |-> "idle"]
  /\ req = [p \in Procs |-> NoReq]
  /\ loc = [p \in Procs |-> NoDoc]
  /\ hist = <<>>
  /\ model_config = DefaultConfig
  /\ temp_files = {}
  /\ quote = NoQuote
  /\ started = 0
  /\ init_users = users
  /\ tx_credits = [t \in TxIds |-> 0]
  /\ tx_logs = [t \in TxIds |-> 0]
  /\ tx_records = [t \in TxIds |-> 0]
  /\ faults = 0
  /\ tr = [p \in Procs |-> NoTr]

\* the state before the first request, U being the users that have been
\* served before
InitWith(U) ==
  /\ users \in {f \in [Users -> UNION {InitDocs(u) : u \in Users}] :
                   \A u \in Users : f[u] \in (IF u \in U THEN InitDocs(u) ELSE {NoDoc})}
  /\ InitRest

\* a free account of which 27 minutes have been used
UsedDoc(u) ==
  DebitedDoc(InitialCredits(EmailOf[u]), InitialCredits(EmailOf[u]), FREE_MINUTES - 3)

\* the state before the first translation of u1
InitTranslate ==
  /\ users \in {[u \in Users |-> IF u = "u1" THEN d ELSE NoDoc] :
                   d \in InitDocs("u1") \cup {UsedDoc("u1")}}
  /\ InitRest

\* variant: the finally clause is left out
cleanup_temp_file_skipped(files, file_path, unlinked) == files

\* cleanup_temp_file, called from the finally clause of
\* process_audio_translation once save_audio_file has returned a file
\* (file_path # 0): the file is unlinked, or the unlink raises, which is
\* logged and leaves the file
cleanup_temp_file(files, file_path, unlinked) ==
  IF file_path # 0 /\ unlinked THEN files \ {file_path} ELSE files

(***************************************************************************)
(* Return of a handler: the slot becomes idle, the answer is recorded.     *)
(* deduct_credits answers "true" or "false:<why>" (the bool it returns and *)
(* the branch that returned it); add_credits_iap answers "success",        *)
(* "already_processed" (HTTP 200, success false) or "http500";             *)
(* GET /api/credits answers "credits" or "error_dict".  `at` is the        *)
(* position the handler returned from.  A translation answers             *)
(* "translated" (success), "insufficient" or "failed" (success false).     *)
(***************************************************************************)
\* the request of slot p is answered with r; t are the locals of
\* process_audio_translation at that point
\* the same, `files` being the files in TEMP_DIR when the handler returns
Finish(p, r, t, files) ==
  /\ pc' = [pc EXCEPT ![p] = "idle"]
  /\ req' = [req EXCEPT ![p] = NoReq]
  /\ loc' = [loc EXCEPT ![p] = NoDoc]
  /\ tr' = [tr EXCEPT ![p] = NoTr]
  /\ \E unlinked \in BOOLEAN :
       /\ t.temp_file = 0 => unlinked
       /\ temp_files' = cleanup_temp_file(files, t.temp_file, unlinked)
       /\ hist' = Append(hist, [req |-> req[p], result |-> r, at |-> pc[p], tr |-> t,
                                unlinked |-> unlinked])
  /\ UNCHANGED <<model_config, quote>>

Done(p, r, t) == Finish(p, r, t, temp_files)

Return(p, r) == Done(p, r, tr[p])

Goto(p, label) ==
  /\ pc' = [pc EXCEPT ![p] = label]
  /\ UNCHANGED <<req, hist, tr, config>>

(***************************************************************************)
(* Arrival of requests.                                                    *)
(***************************************************************************)
\* slots are interchangeable: a request takes the first idle one
Begin(p, r, label, cap) ==
  /\ pc[p] = "idle"
  /\ \A q \in Procs : q < p => pc[q] # "idle"
  /\ started < cap
  /\ started' = started + 1
  /\ req' = [req EXCEPT ![p] = [r EXCEPT !.after = Len(hist), !.id = started + 1]]
  /\ pc' = [pc EXCEPT ![p] = label]
  /\ tr' = [tr EXCEPT ![p] =
               IF r.op = "translate" THEN [NoTr EXCEPT !.phase = "check"] ELSE NoTr]
  /\ model_config' = IF r.op = "translate" /\ r.quality_tier # "none"
                      THEN set_tier(model_config, r.quality_tier)
                      ELSE model_config
  /\ UNCHANGED <<store, loc, hist, init_users, tx_credits, tx_logs, tx_records,
                 faults, quote, temp_files>>

\* a call deduct_credits(user_id, minutes_used)
StartDeduct(p, U, cap) ==
  \E u \in U, m \in DebitAmounts :
    Begin(p, [NoReq EXCEPT !.op = "deduct", !.user_id = u, !.minutes = m], "dc_get", cap)

\* POST /api/add-credits
StartIap(p, U, cap) ==
  \E u \in U, t \in TxIds, i \in IapInputs, k \in PackageTypes :
    Begin(p, [NoReq EXCEPT !.op = "iap", !.user_id = u, !.minutes = i[2],
                           !.product_id = i[1], !.transaction_id = t,
                           !.package_type = k], "iap_check", cap)

\* GET /api/credits/{user_id}
StartGetCredits(p, U, cap) ==
  \E u \in U :
    Begin(p, [NoReq EXCEPT !.op = "get_credits", !.user_id = u], "gc_get", cap)

\* POST /api/translate and /api/translate-file, for a recording within
\* MAX_RECORDING_MINUTES; `minutes` is cost_minutes
StartTranslate(p, U, cap) ==
  \E u \in U, c \in CostMinutes :
    Begin(p, [NoReq EXCEPT !.op = "translate", !.user_id = u, !.minutes = c,
                           !.quality_tier = DefaultConfig.quality_tier],
          "gc_get", cap)

\* the same, with the length of the recording (of a minute at least) and a
\* tier in the request; the cost is taken in whole minutes
StartTranslateFile(p, U, cap) ==
  \E u \in U, d \in {x \in Durations : x >= 1000}, t \in {"basic", "premium"} :
    Begin(p, [NoReq EXCEPT !.op = "translate", !.user_id = u,
                           !.minutes = NormalizedCost(d,
                               get_cost_per_minute(set_tier(model_config, t))) \div 1000,
                           !.quality_tier = t, !.duration_minutes = d],
          "tr_head", cap)

\* the same, with a quality_tier in the request ("none": null)
StartTranslateTier(p, U, cap) ==
  \E u \in U, c \in CostMinutes, t \in QualityTiers \cup {"none"} :
    Begin(p, [NoReq EXCEPT !.op = "translate", !.user_id = u, !.minutes = c,
                           !.quality_tier = t],
          "gc_get", cap)

(***************************************************************************)
(* process_audio_translation: get_user_credits and the balance check,      *)
(* the provider calls, deduct_credits, get_user_credits again.  The steps  *)
(* of the functions it calls are the actions of those functions below;     *)
(* here is what it does when they return.                                  *)
(***************************************************************************)
\* the dict get_user_credits returns from its except clause
ErrorCredits == [NoDoc EXCEPT !.remaining_minutes = 0]

\* the accounts process_audio_translation neither checks nor charges
Exempt(credits) == credits.is_admin \/ credits.is_unlimited

\* variant: a balance equal to the cost is not enough
SufficientStrict(credits, cost_minutes) ==
  Exempt(credits) \/ credits.remaining_minutes > cost_minutes

\* the balance check of process_audio_translation
Sufficient(credits, cost_minutes) ==
  Exempt(credits) \/ ~(credits.remaining_minutes < cost_minutes)

\* get_user_credits has returned `credits` to process_audio_translation
TrCredits(p, credits, error) ==
  IF tr[p].phase = "check"
  THEN IF ~Sufficient(credits, req[p].minutes)
       THEN Done(p, "insufficient",
                 [tr[p] EXCEPT !.credits = credits, !.credits_error = error,
                               !.cost_config = model_config])
       ELSE /\ pc' = [pc EXCEPT ![p] = "tr_transcribe"]
            /\ tr' = [tr EXCEPT ![p] = [@ EXCEPT !.phase = "provider",
                                                 !.credits = credits,
                                                 !.credits_error = error,
                                                 !.cost_config = model_config]]
            /\ loc' = [loc EXCEPT ![p] = NoDoc]
            /\ UNCHANGED <<req, hist, config>>
  ELSE Done(p, "translated", tr[p])

\* deduct_credits has returned r to process_audio_translation, which goes on
\* to its second get_user_credits
TrDeducted(p, r) ==
  /\ pc' = [pc EXCEPT ![p] = "gc_get"]
  /\ tr' = [tr EXCEPT ![p] = [@ EXCEPT !.phase = "final", !.deducted = r]]
  /\ loc' = [loc EXCEPT ![p] = NoDoc]
  /\ UNCHANGED <<req, hist, config>>

\* the translation goes on to deduct_credits, or to its second
\* get_user_credits when the account is not charged; credits_used is set with
\* the call of deduct_credits
TrCharge(p) ==
  LET used == [tr[p].used_config EXCEPT
                 !.translation_model = model_config.translation_model]
  IN
  IF Exempt(tr[p].credits)
  THEN /\ pc' = [pc EXCEPT ![p] = "gc_get"]
       /\ tr' = [tr EXCEPT ![p] = [@ EXCEPT !.phase = "final",
                                            !.used_config = used]]
  ELSE /\ pc' = [pc EXCEPT ![p] = "dc_get"]
       /\ tr' = [tr EXCEPT ![p] = [@ EXCEPT !.phase = "debit",
                                            !.credits_used = req[p].minutes,
                                            !.used_config = used]]

\* save_audio_file has returned and transcribe_audio_premium is called: it
\* reads model_config.audio_model
TrTranscribe(p) ==
  /\ pc[p] = "tr_transcribe"
  /\ pc' = [pc EXCEPT ![p] = "tr_translate"]
  /\ tr' = [tr EXCEPT ![p] =
               [@ EXCEPT !.used_config = [model_config EXCEPT
                                            !.translation_model = "none"]]]
  /\ UNCHANGED <<store, req, loc, hist, started, init_users, tx_credits,
                 tx_logs, tx_records, faults, config>>

\* translate_text_premium has returned
TrTranslate(p) ==
  /\ pc[p] = "tr_translate"
  /\ TrCharge(p)
  /\ UNCHANGED <<store, req, loc, hist, started, init_users, tx_credits,
                 tx_logs, tx_records, faults, config>>

(***************************************************************************)
(* The head of process_audio_translation, save_audio_file and              *)
(* transcribe_audio_premium with its fallback, step by step.  A request    *)
(* that passed the balance check awaits save_audio_file at                 *)
(* "tr_transcribe"; TrTranscribe above is TrSave followed by the           *)
(* transcription that returned a text.                                     *)
(***************************************************************************)
\* variant: the limit is twice MAX_RECORDING_MINUTES
TooLongDouble(duration_minutes) == duration_minutes > 2 * MAX_RECORDING_MINUTES

\* the check of the length of the recording
TooLong(duration_minutes) == duration_minutes > MAX_RECORDING_MINUTES

\* the length check; set_tier was made when the request arrived
TrHead(p) ==
  /\ pc[p] = "tr_head"
  /\ IF TooLong(req[p].duration_minutes)
       THEN Return(p, "too_long")
       ELSE Goto(p, "gc_get") /\ UNCHANGED loc
  /\ UNCHANGED <<store, started, init_users, tx_credits, tx_logs, tx_records, faults>>

\* save_audio_file has written the file and returned its path
TrSave(p) ==
  /\ pc[p] = "tr_transcribe"
  /\ pc' = [pc EXCEPT ![p] = "tr_primary"]
  /\ temp_files' = temp_files \cup {req[p].id}
  /\ tr' = [tr EXCEPT ![p] = [@ EXCEPT !.temp_file = req[p].id]]
  /\ UNCHANGED <<store, req, loc, hist, started, init_users, tx_credits,
                 tx_logs, tx_records, faults, model_config, quote>>

\* save_audio_file raises HTTPException(500): the file could not be opened,
\* or it was opened and the write failed, which leaves it in TEMP_DIR
TrSaveFails(p) ==
  /\ pc[p] = "tr_transcribe"
  /\ faults < MaxProviderFaults
  /\ faults' = faults + 1
  /\ \E opened \in BOOLEAN :
       Finish(p, "http500", tr[p],
              IF opened THEN temp_files \cup {req[p].id} ELSE temp_files)
  /\ UNCHANGED <<store, started, init_users, tx_credits, tx_logs, tx_records>>

\* the first call of transcriptions.create has returned a text
TrPrimary(p) ==
  /\ pc[p] = "tr_primary"
  /\ pc' = [pc EXCEPT ![p] = "tr_translate"]
  /\ tr' = [tr EXCEPT ![p] =
               [@ EXCEPT !.used_config = [model_config EXCEPT
                                            !.translation_model = "none"]]]
  /\ UNCHANGED <<store, req, loc, hist, started, init_users, tx_credits,
                 tx_logs, tx_records, faults, config>>

\* variant: the fallback is made whatever the audio model
ShouldFallbackAnyModel(cfg) == cfg.enable_fallback

\* the condition of the whisper-1 fallback
ShouldFallback(cfg) == cfg.enable_fallback /\ cfg.audio_model # "whisper-1"

\* the first call of transcriptions.create raises
TrPrimaryFails(p) ==
  /\ pc[p] = "tr_primary"
  /\ faults < MaxProviderFaults
  /\ faults' = faults + 1
  /\ IF ShouldFallback(model_config)
       THEN /\ pc' = [pc EXCEPT ![p] = "tr_fallback"]
            /\ tr' = [tr EXCEPT ![p] = [@ EXCEPT !.fallbacks = @ + 1]]
            /\ UNCHANGED <<req, loc, hist, config>>
       ELSE Done(p, "failed", tr[p])
  /\ UNCHANGED <<store, started, init_users, tx_credits, tx_logs, tx_records>>

\* the whisper-1 call of the fallback has returned a text
TrFallback(p) ==
  /\ pc[p] = "tr_fallback"
  /\ pc' = [pc EXCEPT ![p] = "tr_translate"]
  /\ tr' = [tr EXCEPT ![p] =
               [@ EXCEPT !.used_config = [model_config EXCEPT
                                            !.audio_model = "whisper-1",
                                            !.translation_model = "none"]]]
  /\ UNCHANGED <<store, req, loc, hist, started, init_users, tx_credits,
                 tx_logs, tx_records, faults, config>>

\* the whisper-1 call of the fallback raises: the first error is raised
TrFallbackFails(p) ==
  /\ pc[p] = "tr_fallback"
  /\ faults < MaxProviderFaults
  /\ faults' = faults + 1
  /\ Done(p, "failed", tr[p])
  /\ UNCHANGED <<store, started, init_users, tx_credits, tx_logs, tx_records>>

\* return of deduct_credits to its caller
ReturnBool(p, r) ==
  IF req[p].op = "translate" THEN TrDeducted(p, r) ELSE Return(p, r)

(***************************************************************************)
(* deduct_credits                                                          *)
(***************************************************************************)
\* variant: only the admin flag is looked at
BypassAdminOnly(user_data) == user_data.is_admin

\* the accounts deduct_credits never charges
Bypass(user_data) == user_data.is_admin \/ user_data.is_unlimited

\* variant: the operands of the comparison are swapped
InsufficientSwapped(user_data, minutes_used) ==
  minutes_used < user_data.remaining_minutes

\* the balance check of deduct_credits
Insufficient(user_data, minutes_used) == user_data.remaining_minutes < minutes_used

\* user_ref.get() and the checks on the document read
DcGet(p) ==
  LET u == req[p].user_id
      user_data == users[u]
  IN
  /\ pc[p] = "dc_get"
  /\ IF ~user_data.exists
       THEN ReturnBool(p, "false:not_found") /\ UNCHANGED loc
     ELSE IF Bypass(user_data)
       THEN ReturnBool(p, "true") /\ UNCHANGED loc
     ELSE IF Insufficient(user_data, req[p].minutes)
       THEN ReturnBool(p, "false:insufficient") /\ UNCHANGED loc
     ELSE Goto(p, "dc_update") /\ loc' = [loc EXCEPT ![p] = user_data]
  /\ UNCHANGED <<store, started, init_users, tx_credits, tx_logs, tx_records, faults>>

\* variant: the update lands on the document of the first user
DcUpdateFirstUser(p) ==
  /\ pc[p] = "dc_update"
  /\ users' = [users EXCEPT !["u1"] = DebitedDoc(users["u1"], loc[p], req[p].minutes)]
  /\ Goto(p, "dc_log")
  /\ UNCHANGED <<usage_logs, purchase_logs, iap_transactions, loc, started,
                 init_users, tx_credits, tx_logs, tx_records, faults>>

\* user_ref.update({remaining_minutes, used_minutes, last_used})
DcUpdate(p) ==
  LET u == req[p].user_id IN
  /\ pc[p] = "dc_update"
  /\ users' = [users EXCEPT ![u] = DebitedDoc(users[u], loc[p], req[p].minutes)]
  /\ Goto(p, "dc_log")
  /\ UNCHANGED <<usage_logs, purchase_logs, iap_transactions, loc, started,
                 init_users, tx_credits, tx_logs, tx_records, faults>>

\* variant: the call returns True without the log entry
DcLogSilent(p) ==
  /\ pc[p] = "dc_log"
  /\ ReturnBool(p, "true")
  /\ UNCHANGED <<store, started, init_users, tx_credits, tx_logs, tx_records, faults>>

\* db.collection("usage_logs").add(...)
DcLog(p) ==
  LET u == req[p].user_id IN
  /\ pc[p] = "dc_log"
  /\ usage_logs' = Append(usage_logs,
        [user_id |-> u, minutes_used |-> req[p].minutes,
         remaining_after |-> loc[p].remaining_minutes - req[p].minutes,
         audio_model |-> model_config.audio_model,
         translation_model |-> model_config.translation_model,
         quality_tier |-> model_config.quality_tier])
  /\ ReturnBool(p, "true")
  /\ UNCHANGED <<users, purchase_logs, iap_transactions, started,
                 init_users, tx_credits, tx_logs, tx_records, faults>>

(***************************************************************************)
(* add_credits_iap, with the add_credits and get_user_credits it calls     *)
(***************************************************************************)
\* variant: the transaction is never found
AlreadyProcessedNever(transaction_id) == FALSE

\* existing_transaction.exists
AlreadyProcessed(transaction_id) == iap_transactions[transaction_id].exists

\* the HTTP response of POST /api/add-credits for each way the handler ends:
\* status code and, for a 200, the `success` field of the body
IapResponse(result) ==
  IF result = "success" THEN [status |-> 200, success |-> TRUE]
  ELSE IF result = "already_processed" THEN [status |-> 200, success |-> FALSE]
  ELSE [status |-> 500, success |-> FALSE]

\* validation of the request, then iap_transactions.document(id).get()
\* an HTTPException raised inside the handler's try block is caught by its
\* `except Exception` and raised again with status 500
IapCheck(p) ==
  /\ pc[p] = "iap_check"
  /\ IF req[p].product_id \notin DOMAIN PACKAGES
       THEN Return(p, "http500")
     ELSE IF AlreadyProcessed(req[p].transaction_id)
       THEN Return(p, "already_processed")
     ELSE Goto(p, "ac_get") /\ UNCHANGED loc
  /\ UNCHANGED <<store, started, init_users, tx_credits, tx_logs, tx_records, faults>>

\* add_credits: user_ref.get()
AcGet(p) ==
  /\ pc[p] = "ac_get"
  /\ loc' = [loc EXCEPT ![p] = users[req[p].user_id]]
  /\ Goto(p, "ac_write")
  /\ UNCHANGED <<store, started, init_users, tx_credits, tx_logs, tx_records, faults>>

\* add_credits: user_ref.set(...) for a user read as missing, else
\* user_ref.update(...)
AcWrite(p) ==
  LET u == req[p].user_id IN
  /\ pc[p] = "ac_write"
  /\ users' = [users EXCEPT ![u] =
                 IF ~loc[p].exists
                 THEN NewPurchasedDoc(req[p].minutes)
                 ELSE CreditedDoc(users[u], loc[p], req[p].minutes)]
  /\ tx_credits' = [tx_credits EXCEPT ![req[p].transaction_id] = @ + 1]
  /\ Goto(p, "ac_log")
  /\ UNCHANGED <<usage_logs, purchase_logs, iap_transactions, loc, started,
                 init_users, tx_logs, tx_records, faults>>

\* add_credits: db.collection("purchase_logs").add(...)
AcLog(p) ==
  /\ pc[p] = "ac_log"
  /\ purchase_logs' = Append(purchase_logs,
        [user_id |-> req[p].user_id, minutes_added |-> req[p].minutes,
         package_type |-> req[p].package_type,
         is_unlimited |-> (req[p].minutes = UNLIMITED_MINUTES)])
  /\ tx_logs' = [tx_logs EXCEPT ![req[p].transaction_id] = @ + 1]
  /\ Goto(p, "iap_record")
  /\ UNCHANGED <<users, usage_logs, iap_transactions, loc, started,
                 init_users, tx_credits, tx_records, faults>>

\* iap_transactions.document(id).set(...)
IapRecord(p) ==
  /\ pc[p] = "iap_record"
  /\ iap_transactions' = [iap_transactions EXCEPT ![req[p].transaction_id] =
        [exists |-> TRUE, user_id |-> req[p].user_id,
         product_id |-> req[p].product_id, minutes_added |-> req[p].minutes]]
  /\ tx_records' = [tx_records EXCEPT ![req[p].transaction_id] = @ + 1]
  /\ Goto(p, "gc_get")
  /\ UNCHANGED <<users, usage_logs, purchase_logs, loc, started,
                 init_users, tx_credits, tx_logs, faults>>

\* what the request answers once get_user_credits has returned
AfterCredits(p) == IF req[p].op = "iap" THEN "success" ELSE "credits"

\* return of get_user_credits to its caller; the endpoints put the dict in
\* their response
ReturnCredits(p, credits) ==
  IF req[p].op = "translate"
  THEN TrCredits(p, credits, FALSE)
  ELSE Done(p, AfterCredits(p), [tr[p] EXCEPT !.credits = credits])

\* the entitlement and balance fields of the dict get_user_credits returns
CreditsView(credits) ==
  [is_admin |-> credits.is_admin, is_premium |-> credits.is_premium,
   is_unlimited |-> credits.is_unlimited,
   remaining_minutes |-> credits.remaining_minutes,
   total_purchased_minutes |-> credits.total_purchased_minutes,
   used_minutes |-> credits.used_minutes,
   subscription_type |-> credits.subscription_type,
   subscription_expiry |-> credits.subscription_expiry]

\* get_user_credits: users.document(id).get(), then the identity lookup when
\* the document is missing or has no email
GcGet(p) ==
  LET u == req[p].user_id
      user_data == users[u]
  IN
  /\ pc[p] = "gc_get"
  /\ IF user_data.exists /\ user_data.email # "absent"
       THEN ReturnCredits(p, user_data) /\ UNCHANGED faults
       ELSE \E user_email \in LookupResults(u) :
              /\ \/ user_email = EmailOf[u] /\ UNCHANGED faults
                 \/ /\ user_email # EmailOf[u]
                    /\ faults < MaxFaults
                    /\ faults' = faults + 1
              /\ loc' = [loc EXCEPT ![p] =
                           IF user_data.exists
                           THEN [user_data EXCEPT !.email = user_email]
                           ELSE InitialCredits(user_email)]
              /\ Goto(p, IF user_data.exists THEN "gc_update" ELSE "gc_set")
  /\ UNCHANGED <<store, started, init_users, tx_credits, tx_logs, tx_records>>

\* get_user_credits: users.document(id).set(initial_credits)
GcSet(p) ==
  /\ pc[p] = "gc_set"
  /\ users' = [users EXCEPT ![req[p].user_id] = loc[p]]
  /\ ReturnCredits(p, loc[p])
  /\ UNCHANGED <<usage_logs, purchase_logs, iap_transactions, started,
                 init_users, tx_credits, tx_logs, tx_records, faults>>

\* get_user_credits: users.document(id).update(update_data)
GcUpdate(p) ==
  LET u == req[p].user_id IN
  /\ pc[p] = "gc_update"
  /\ users' = [users EXCEPT ![u] = PatchedDoc(users[u], loc[p], loc[p].email)]
  /\ ReturnCredits(p, PatchedDoc(loc[p], loc[p], loc[p].email))
  /\ UNCHANGED <<usage_logs, purchase_logs, iap_transactions, started,
                 init_users, tx_credits, tx_logs, tx_records, faults>>

(***************************************************************************)
(* Failures.  Every step above is one call on the store; the call may      *)
(* raise instead, and the `except Exception` of the function that made it  *)
(* decides the answer.  Inside process_audio_translation the function      *)
(* returns to it: get_user_credits its error dict, deduct_credits False;   *)
(* a failing provider call ends the translation with success false.        *)
(***************************************************************************)
DeductLabels == {"dc_get", "dc_update", "dc_log"}
AddCreditsLabels == {"ac_get", "ac_write", "ac_log"}
IapLabels == {"iap_check", "iap_record"}
GetCreditsLabels == {"gc_get", "gc_set", "gc_update"}

\* the answer of the request when the store call at pc[p] raises
ErrorAnswer(p) ==
  IF pc[p] \in DeductLabels THEN "false:error"
  ELSE IF pc[p] \in AddCreditsLabels \cup IapLabels THEN "http500"
  ELSE IF req[p].op = "iap" THEN "success"
  ELSE "error_dict"

StoreError(p) ==
  /\ pc[p] # "idle"
  /\ faults < MaxFaults
  /\ faults' = faults + 1
  /\ IF req[p].op # "translate" THEN Return(p, ErrorAnswer(p))
     ELSE IF pc[p] \in GetCreditsLabels THEN TrCredits(p, ErrorCredits, TRUE)
     ELSE IF pc[p] \in DeductLabels THEN TrDeducted(p, "false:error")
     ELSE Done(p, "failed", tr[p])
  /\ UNCHANGED <<store, started, init_users, tx_credits, tx_logs, tx_records>>

(***************************************************************************)
(* Specifications.                                                         *)
(***************************************************************************)
DeductStep(p) == DcGet(p) \/ DcUpdate(p) \/ DcLog(p)
IapStep(p) == IapCheck(p) \/ AcGet(p) \/ AcWrite(p) \/ AcLog(p) \/ IapRecord(p)
GetCreditsStep(p) == GcGet(p) \/ GcSet(p) \/ GcUpdate(p)

\* one slot is busy at most
Alone(p) == \A q \in Procs \ {p} : pc[q] = "idle"

Init == InitWith(Users)

\* purchases and account look-ups of one user, served in parallel
Next ==
  \E p \in Procs :
    \/ StartIap(p, {"u1"}, MaxRequests) \/ StartGetCredits(p, {"u1"}, MaxRequests)
    \/ IapStep(p) \/ GetCreditsStep(p) \/ StoreError(p)
Spec == InitWith({"u1"}) /\ [][Next]_vars

\* purchases, look-ups and debits of one user, served one after the other
NextSeq ==
  \E p \in Procs :
    /\ Alone(p)
    /\ \/ StartIap(p, {"u1"}, MaxRequests)
       \/ StartGetCredits(p, {"u1"}, MaxRequests)
       \/ StartDeduct(p, {"u1"}, MaxRequests)
       \/ IapStep(p) \/ GetCreditsStep(p) \/ DeductStep(p) \/ StoreError(p)
SpecSeq == InitWith({"u1"}) /\ [][NextSeq]_vars

\* the same, for longer sequences of requests
NextLong ==
  \E p \in Procs :
    /\ Alone(p)
    /\ \/ StartIap(p, {"u1"}, MaxSeqRequests)
       \/ StartGetCredits(p, {"u1"}, MaxSeqRequests)
       \/ StartDeduct(p, {"u1"}, MaxSeqRequests)
       \/ IapStep(p) \/ GetCreditsStep(p) \/ DeductStep(p) \/ StoreError(p)
SpecLong == InitWith({"u1"}) /\ [][NextLong]_vars

\* calls of deduct_credits for any user, served in parallel
NextDebit ==
  \E p \in Procs :
    StartDeduct(p, Users, MaxRequests) \/ DeductStep(p) \/ StoreError(p)
SpecDebit == Init /\ [][NextDebit]_vars

\* purchases, look-ups and debits of one user, served in parallel
NextMix ==
  \E p \in Procs :
    \/ StartIap(p, {"u1"}, MaxRequests) \/ StartDeduct(p, {"u1"}, MaxRequests)
    \/ StartGetCredits(p, {"u1"}, MaxRequests)
    \/ IapStep(p) \/ GetCreditsStep(p) \/ DeductStep(p) \/ StoreError(p)
SpecMix == InitWith({"u1"}) /\ [][NextMix]_vars

\* account look-ups of any user, served in parallel
NextResolve ==
  \E p \in Procs :
    StartGetCredits(p, Users, MaxRequests) \/ GetCreditsStep(p) \/ StoreError(p)
SpecResolve == Init /\ [][NextResolve]_vars

\* translations of one user, served in parallel
NextTranslate ==
  \E p \in Procs :
    \/ StartTranslate(p, {"u1"}, MaxRequests)
    \/ GetCreditsStep(p) \/ TrTranscribe(p) \/ TrTranslate(p)
    \/ DeductStep(p) \/ StoreError(p)
SpecTranslate == InitTranslate /\ [][NextTranslate]_vars

\* no request of user u is being served
Unserved(u) == \A q \in Procs : pc[q] = "idle" \/ req[q].user_id # u

\* the transaction id of the purchases of user u
OwnTx(u) == IF u = "u1" THEN "T1" ELSE "T2"

\* POST /api/add-credits of user u with a transaction id of that user
StartOwnIap(p, u, cap) ==
  \E i \in IapInputs, k \in PackageTypes :
    Begin(p, [NoReq EXCEPT !.op = "iap", !.user_id = u, !.minutes = i[2],
                           !.product_id = i[1], !.transaction_id = OwnTx(u),
                           !.package_type = k], "iap_check", cap)

\* purchases, look-ups and debits of two users: the requests of one user are
\* served one after the other, those of different users in parallel
NextPair ==
  \E p \in Procs :
    \/ \E u \in Users :
         /\ Unserved(u)
         /\ \/ StartOwnIap(p, u, MaxRequests)
            \/ StartGetCredits(p, {u}, MaxRequests)
            \/ StartDeduct(p, {u}, MaxRequests)
    \/ IapStep(p) \/ GetCreditsStep(p) \/ DeductStep(p) \/ StoreError(p)
SpecPair == Init /\ [][NextPair]_vars

\* POST /config
update_model_config(config_request) ==
  LET tiered == IF config_request.quality_tier # "none"
                THEN set_tier(model_config, config_request.quality_tier)
                ELSE model_config
  IN
  /\ model_config' =
       [tiered EXCEPT
          !.audio_model = IF config_request.audio_model # "none"
                          THEN config_request.audio_model ELSE @,
          !.translation_model = IF config_request.translation_model # "none"
                                THEN config_request.translation_model ELSE @,
          !.enable_fallback = IF config_request.enable_fallback # "none"
                              THEN config_request.enable_fallback = "true" ELSE @]
  /\ UNCHANGED <<store, pc, req, loc, hist, started, init_users, tx_credits,
                 tx_logs, tx_records, faults, tr, quote, temp_files>>

\* the head of process_audio_translation: set_tier for the tier of the
\* request, the check of the length of the recording, and cost_minutes
EstimateCost(duration_minutes, quality_tier) ==
  LET cfg == IF quality_tier # "none" THEN set_tier(model_config, quality_tier)
             ELSE model_config
      too_long == duration_minutes > MAX_RECORDING_MINUTES
  IN
  /\ model_config' = cfg
  /\ quote' = [duration_minutes |-> duration_minutes,
               cost_per_minute |-> IF too_long THEN 0 ELSE get_cost_per_minute(cfg),
               cost_minutes |-> IF too_long THEN 0
                                ELSE NormalizedCost(duration_minutes,
                                                    get_cost_per_minute(cfg)),
               tier |-> quality_tier, too_long |-> too_long,
               audio_model |-> cfg.audio_model,
               translation_model |-> cfg.translation_model]
  /\ UNCHANGED <<store, pc, req, loc, hist, started, init_users, tx_credits,
                 tx_logs, tx_records, faults, tr, temp_files>>

\* configuration updates and cost computations, one after the other
NextCost ==
  \/ \E c \in ConfigRequests : update_model_config(c)
  \/ \E d \in Durations, t \in QualityTiers \cup {"none"} : EstimateCost(d, t)
SpecCost == InitWith({}) /\ [][NextCost]_vars

\* a coroutine that is not running: it serves no request, or it awaits
\* save_audio_file
Parked(p) == pc[p] \in {"idle", "tr_transcribe"}

\* translations of one user and configuration updates in one server process:
\* a handler runs until it awaits save_audio_file or returns
NextConfig ==
  \/ \E p \in Procs :
       /\ \A q \in Procs \ {p} : Parked(q)
       /\ \/ StartTranslateTier(p, {"u1"}, MaxRequests)
          \/ GetCreditsStep(p) \/ TrTranscribe(p) \/ TrTranslate(p)
          \/ DeductStep(p) \/ StoreError(p)
  \/ /\ \A q \in Procs : Parked(q)
     /\ \E c \in ConfigRequests :
          c.quality_tier # "none" /\ update_model_config(c)
SpecConfig == InitTranslate /\ [][NextConfig]_vars

\* the positions before and in transcribe_audio_premium
FileLabels == {"tr_head", "tr_transcribe", "tr_primary", "tr_fallback"}

\* what a handler does next when nothing raises
Progress(p) ==
  /\ \A q \in Procs \ {p} : Parked(q)
  /\ \/ TrHead(p) \/ GetCreditsStep(p) \/ TrSave(p) \/ TrPrimary(p)
     \/ TrFallback(p) \/ TrTranslate(p) \/ DeductStep(p)

\* translations of one user in one server process, from the length check to
\* the removal of the file, and POST /config switching enable_fallback
NextFile ==
  \/ \E p \in Procs :
       \/ Progress(p)
       \/ /\ \A q \in Procs \ {p} : Parked(q)
          /\ \/ StartTranslateFile(p, {"u1"}, MaxRequests)
             \/ TrSaveFails(p) \/ TrPrimaryFails(p) \/ TrFallbackFails(p)
             \/ pc[p] \notin FileLabels /\ StoreError(p)
  \/ /\ \A q \in Procs : Parked(q)
     /\ \E c \in ConfigRequests :
          c.enable_fallback # "none" /\ update_model_config(c)
SpecFile == InitTranslate /\ [][NextFile]_vars

\* the same; a handler that can go on does go on
SpecFileLive == SpecFile /\ \A p \in Procs : WF_vars(Progress(p))

AtRest == \A p \in Procs : pc[p] = "idle"

(***************************************************************************)
(* Vocabulary of the properties.                                           *)
(***************************************************************************)
\* an account that deduct_credits charges
Metered(doc) == doc.exists /\ ~doc.is_admin /\ ~doc.is_unlimited

Last(h) == h[Len(h)]

\* p leaves the position it is at
Moves(p) == pc'[p] # pc[p]

RECURSIVE SumDebited(_, _)
\* sum of the amounts of the first n answered debits of u that returned True
SumDebited(u, n) ==
  IF n = 0 THEN 0
  ELSE SumDebited(u, n - 1) +
       (IF hist[n].req.op = "deduct" /\ hist[n].req.user_id = u /\ hist[n].result = "true"
        THEN hist[n].req.minutes ELSE 0)

IsDebit(h, u, m) == h.req.op = "deduct" /\ h.req.user_id = u /\ h.req.minutes = m

(***************************************************************************)
(* C1.  Over parallel calls of deduct_credits, the balance of an account   *)
(* that is neither admin nor unlimited is never negative, and a call whose *)
(* amount exceeds the balance it reads is rejected in full: it returns     *)
(* False at once and writes nothing.                                       *)
(***************************************************************************)
C1_NonNegative ==
  \A u \in Users : Metered(users[u]) => users[u].remaining_minutes >= 0

C1_Rejected ==
  \A p \in Procs :
    ( /\ pc[p] = "dc_get"
      /\ Moves(p)
      /\ Metered(users[req[p].user_id])
      /\ req[p].minutes > users[req[p].user_id].remaining_minutes )
    => /\ pc'[p] = "idle"
       /\ Last(hist').result \in {"false:insufficient", "false:error"}
       /\ UNCHANGED store

\* C1: the balance of a metered account is never negative and a debit above
\* the balance read is rejected without any write
C1_NoOverdraft == [](C1_NonNegative) /\ [][C1_Rejected]_vars

\* a debit of 18 was applied to a balance of 30 and a later one was rejected
C1_Witness ==
  \E i \in DOMAIN hist :
    /\ hist[i].result = "false:insufficient"
    /\ users[hist[i].req.user_id].remaining_minutes = 12
    /\ users[hist[i].req.user_id].used_minutes = 18

(***************************************************************************)
(* C2.  Two calls of deduct_credits that run in parallel on an account     *)
(* with 30 minutes, each for 18 = 0.6 * 30, with no failing store call:    *)
(* exactly one returns True and the other is rejected as insufficient.     *)
(***************************************************************************)
C2_Scenario(u) ==
  /\ Len(hist) = 2
  /\ faults = 0
  /\ init_users[u] = InitialCredits(EmailOf[u])
  /\ Metered(init_users[u])
  /\ IsDebit(hist[1], u, 18) /\ IsDebit(hist[2], u, 18)
  /\ hist[1].req.after = 0 /\ hist[2].req.after = 0

\* C2: of two parallel debits of 18 on a balance of 30 exactly one succeeds
C2_ExactlyOneSucceeds ==
  \A u \in Users :
    C2_Scenario(u) =>
      {hist[1].result, hist[2].result} = {"true", "false:insufficient"}

(***************************************************************************)
(* C3.  Once all calls of deduct_credits have returned, none of them       *)
(* having met a failing store call, the balance of a metered account is    *)
(* its initial balance minus the amounts of the calls that returned True,  *)
(* and used_minutes its initial value plus those amounts.                  *)
(***************************************************************************)
\* C3: at rest the balance is the initial balance minus the successful debits
C3_NoLostDebit ==
  (AtRest /\ faults = 0) =>
    \A u \in Users :
      Metered(init_users[u]) =>
        /\ users[u].remaining_minutes =
             init_users[u].remaining_minutes - SumDebited(u, Len(hist))
        /\ users[u].used_minutes =
             init_users[u].used_minutes + SumDebited(u, Len(hist))

IsPurchase(h, u) == h.req.op = "iap" /\ h.req.user_id = u

SamePurchase(h, g) ==
  /\ h.req.op = "iap" /\ g.req.op = "iap"
  /\ h.req.user_id = g.req.user_id
  /\ h.req.transaction_id = g.req.transaction_id
  /\ h.req.product_id = g.req.product_id
  /\ h.req.minutes = g.req.minutes

\* the balance a purchase starts from
BalanceOf(doc) == IF doc.exists THEN doc.remaining_minutes ELSE 0

(***************************************************************************)
(* C4.  A debit that returned True and a purchase of a regular package     *)
(* that was answered with success, run in parallel on one existing metered *)
(* account with no failing store call: the balance at the end is the       *)
(* initial balance plus the minutes bought minus the minutes debited.      *)
(***************************************************************************)
\* C4: a parallel debit and purchase both show in the final balance
C4_NoLostCreditOrDebit ==
  \A u \in Users :
    \A i, j \in {1, 2} :
      ( /\ Len(hist) = 2 /\ AtRest /\ faults = 0
        /\ Metered(init_users[u])
        /\ hist[i].req.op = "deduct" /\ hist[i].req.user_id = u
        /\ hist[i].result = "true"
        /\ IsPurchase(hist[j], u) /\ hist[j].result = "success"
        /\ hist[j].req.minutes # UNLIMITED_MINUTES )
      => users[u].remaining_minutes =
           init_users[u].remaining_minutes + hist[j].req.minutes - hist[i].req.minutes

(***************************************************************************)
(* C5.  Purchase requests served in parallel, with no failing store call:  *)
(* for every transaction id the account is credited at most once and at    *)
(* most one purchase_logs entry is appended.                               *)
(***************************************************************************)
\* C5: a transaction id is credited and logged at most once
C5_CreditedAtMostOnce ==
  faults = 0 => \A t \in TxIds : tx_credits[t] <= 1 /\ tx_logs[t] <= 1

(***************************************************************************)
(* C6.  The same purchase of 300 minutes sent twice, the second after the  *)
(* first was answered with success: the balance has grown by 300 once,     *)
(* purchase_logs holds one entry, the second request is answered "already  *)
(* processed" (or fails on its read of iap_transactions) and any request   *)
(* that finds its transaction id recorded writes nothing.                  *)
(***************************************************************************)
C6_Scenario ==
  /\ Len(hist) = 2 /\ AtRest
  /\ SamePurchase(hist[1], hist[2])
  /\ hist[1].req.minutes = 300
  /\ hist[1].result = "success"
  /\ hist[2].req.after = 1

C6_OnceInTotal ==
  C6_Scenario =>
    LET u == hist[1].req.user_id
        t == hist[1].req.transaction_id
    IN /\ users[u].remaining_minutes = BalanceOf(init_users[u]) + 300
       /\ Len(purchase_logs) = 1
       /\ purchase_logs[1].user_id = u /\ purchase_logs[1].minutes_added = 300
       /\ tx_credits[t] = 1
       /\ iap_transactions[t] =
            [exists |-> TRUE, user_id |-> u, product_id |-> hist[1].req.product_id,
             minutes_added |-> 300]
       /\ hist[2].result \in {"already_processed", "http500"}
       /\ faults = 0 => hist[2].result = "already_processed"

C6_NoMutation ==
  \A p \in Procs :
    ( /\ pc[p] = "iap_check"
      /\ Moves(p)
      /\ req[p].product_id \in DOMAIN PACKAGES
      /\ iap_transactions[req[p].transaction_id].exists )
    => /\ pc'[p] = "idle"
       /\ Last(hist').result \in {"already_processed", "http500"}
       /\ UNCHANGED store

\* C6: the same purchase applied twice in sequence counts once, and a request
\* whose transaction id is recorded writes nothing
C6_IdempotentPurchase == [](C6_OnceInTotal) /\ [][C6_NoMutation]_vars

C6_Witness ==
  /\ C6_Scenario
  /\ hist[2].result = "already_processed"
  /\ init_users["u1"] = InitialCredits(EmailOf["u1"])
  /\ users["u1"].remaining_minutes = 330

(***************************************************************************)
(* C7.  A purchase of a regular package that ended in an error and is sent *)
(* again with the same transaction id, the second time with success: the   *)
(* account has been credited once.                                         *)
(***************************************************************************)
\* C7: a purchase that failed and is retried with success is credited once
C7_RetryCreditsOnce ==
  ( /\ Len(hist) = 2 /\ AtRest
    /\ SamePurchase(hist[1], hist[2])
    /\ hist[1].req.minutes # UNLIMITED_MINUTES
    /\ hist[1].result = "http500"
    /\ hist[2].result = "success"
    /\ hist[2].req.after = 1 )
  => /\ users[hist[1].req.user_id].remaining_minutes =
          BalanceOf(init_users[hist[1].req.user_id]) + hist[1].req.minutes
     /\ tx_credits[hist[1].req.transaction_id] = 1

(***************************************************************************)
(* C8.  Purchase requests served in parallel, with no failing store call:  *)
(* the iap_transactions document of a transaction id exists only if        *)
(* add_credits has credited an account and logged the purchase for it, and *)
(* the document is written once.                                           *)
(***************************************************************************)
\* C8: a transaction record exists only after its credit and is written once
C8_RecordWrittenOnce ==
  faults = 0 =>
    \A t \in TxIds :
      /\ iap_transactions[t].exists => (tx_credits[t] >= 1 /\ tx_logs[t] >= 1)
      /\ tx_records[t] <= 1

(***************************************************************************)
(* C9.  deduct_credits on an account whose document has is_admin or        *)
(* is_unlimited set returns at its first step without writing anything,    *)
(* and returns True unless the read of the document raised.                *)
(***************************************************************************)
C9_Step ==
  \A p \in Procs :
    ( /\ pc[p] = "dc_get"
      /\ Moves(p)
      /\ users[req[p].user_id].exists
      /\ users[req[p].user_id].is_admin \/ users[req[p].user_id].is_unlimited )
    => /\ pc'[p] = "idle"
       /\ UNCHANGED store
       /\ faults' = faults => Last(hist').result = "true"

\* C9: deduct_credits never writes for an admin or unlimited account and
\* returns True
C9_NeverCharged == [][C9_Step]_vars

\* a debit above the balance returned True on an unlimited account that is
\* not admin, and one on the admin account
C9_Witness ==
  /\ Len(hist) = 2
  /\ IsDebit(hist[1], "u1", 1000000) /\ hist[1].result = "true"
  /\ IsDebit(hist[2], "u2", 31) /\ hist[2].result = "true"
  /\ users["u1"].is_unlimited /\ ~users["u1"].is_admin
  /\ users["u1"].remaining_minutes = UNLIMITED_BALANCE
  /\ users["u1"].used_minutes = 0
  /\ users["u2"].is_admin
  /\ users["u2"].remaining_minutes = UNLIMITED_BALANCE

(***************************************************************************)
(* C10.  The account write of add_credits for minutes_to_add = -1 sets     *)
(* is_unlimited, subscription_type "unlimited", remaining_minutes 999999,  *)
(* no expiry, and adds 999999 to total_purchased_minutes; and once such a  *)
(* purchase has been answered with success, no debit that arrives later    *)
(* changes remaining_minutes (no external call having failed).             *)
(***************************************************************************)
C10_Write ==
  \A p \in Procs :
    ( /\ pc[p] = "ac_write"
      /\ Moves(p)
      /\ faults' = faults
      /\ req[p].minutes = UNLIMITED_MINUTES )
    => LET u == req[p].user_id IN
       /\ users'[u].exists
       /\ users'[u].is_unlimited
       /\ users'[u].subscription_type = "unlimited"
       /\ users'[u].remaining_minutes = 999999
       /\ users'[u].subscription_expiry = "none"
       /\ users'[u].total_purchased_minutes =
            (IF users[u].exists THEN users[u].total_purchased_minutes ELSE 0) + 999999

C10_LaterDebit ==
  \A p \in Procs :
    ( /\ req[p].op = "deduct"
      /\ Moves(p)
      /\ faults = 0
      /\ \E i \in DOMAIN hist :
           /\ IsPurchase(hist[i], req[p].user_id)
           /\ hist[i].req.minutes = UNLIMITED_MINUTES
           /\ hist[i].result = "success"
           /\ req[p].after >= i )
    => users'[req[p].user_id].remaining_minutes =
         users[req[p].user_id].remaining_minutes

\* C10: the unlimited purchase sets the unlimited entitlement and no later
\* debit changes remaining_minutes
C10_UnlimitedForGood == [][C10_Write /\ C10_LaterDebit]_vars

(***************************************************************************)
(* C11.  Over requests served one after the other, is_unlimited is set on  *)
(* every account whose is_admin is set and on every account for which a    *)
(* purchase of the unlimited package was answered with success.            *)
(***************************************************************************)
BoughtUnlimited(u) ==
  \E i \in DOMAIN hist :
    /\ IsPurchase(hist[i], u)
    /\ hist[i].req.minutes = UNLIMITED_MINUTES
    /\ hist[i].result = "success"

\* C11: is_unlimited holds for admin accounts and for accounts that bought
\* the unlimited package
C11_UnlimitedFlag ==
  \A u \in Users :
    (users[u].exists /\ (users[u].is_admin \/ BoughtUnlimited(u)))
      => users[u].is_unlimited

(***************************************************************************)
(* C12.  Calls of deduct_credits served one after the other on a metered   *)
(* account, with no purchase and none of the calls ended by a store error: *)
(* once they have returned, used_minutes is its initial value plus the     *)
(* amounts of the calls that returned True and remaining_minutes the       *)
(* initial balance minus them; the update of each such call raises         *)
(* used_minutes by its amount, and used_minutes never goes down.           *)
(***************************************************************************)
NoCredit == \A t \in TxIds : tx_credits[t] = 0

NoFailedDebit ==
  \A i \in DOMAIN hist :
    hist[i].req.op = "deduct" => hist[i].result # "false:error"

C12_Sum ==
  (AtRest /\ NoCredit /\ NoFailedDebit) =>
    \A u \in Users :
      Metered(init_users[u]) =>
        /\ users[u].used_minutes =
             init_users[u].used_minutes + SumDebited(u, Len(hist))
        /\ users[u].remaining_minutes =
             init_users[u].remaining_minutes - SumDebited(u, Len(hist))

C12_Step ==
  /\ \A p \in Procs :
       (pc[p] = "dc_update" /\ pc'[p] = "dc_log") =>
         LET u == req[p].user_id IN
         /\ users'[u].used_minutes = users[u].used_minutes + req[p].minutes
         /\ users'[u].remaining_minutes = users[u].remaining_minutes - req[p].minutes
  /\ \A u \in Users : users'[u].used_minutes >= users[u].used_minutes

\* C12: after sequential successful debits used_minutes and remaining_minutes
\* have moved by the sum of the amounts, each debit by its own amount
C12_SequentialDebits == [](C12_Sum) /\ [][C12_Step]_vars

\* debits of 12 and 18 have emptied a balance of 30
C12_Witness ==
  /\ Len(hist) = 2 /\ AtRest
  /\ IsDebit(hist[1], "u1", 12) /\ hist[1].result = "true"
  /\ IsDebit(hist[2], "u1", 18) /\ hist[2].result = "true"
  /\ hist[2].req.after = 1
  /\ init_users["u1"].remaining_minutes = 30
  /\ users["u1"].remaining_minutes = 0
  /\ users["u1"].used_minutes = 30

(***************************************************************************)
(* C13.  As claimed: once every request has returned, usage_logs holds one *)
(* entry for each call of deduct_credits that returned True.               *)
(***************************************************************************)
\* the answered calls of deduct_credits that returned True
SuccessfulDebits ==
  {i \in DOMAIN hist : hist[i].req.op = "deduct" /\ hist[i].result = "true"}

\* those of them that returned after the update and the log (main.py:647),
\* the others having returned at the admin/unlimited check (main.py:616)
ChargedDebits == {i \in SuccessfulDebits : hist[i].at = "dc_log"}

\* the answered purchases whose call of add_credits returned True
SuccessfulCredits ==
  {i \in DOMAIN hist :
     /\ hist[i].req.op = "iap"
     /\ hist[i].at \in {"iap_record"} \cup GetCreditsLabels}

\* C13: as many usage_logs entries as calls of deduct_credits that returned True
C13_LogPerSuccess == AtRest => Len(usage_logs) = Cardinality(SuccessfulDebits)

(***************************************************************************)
(* C13, amended.  A call of deduct_credits that returns True after         *)
(* debiting a metered account appends one usage_logs entry in the step it  *)
(* returns with, for its user and amount; a call that returns True for an  *)
(* admin or unlimited account appends none; the step with which            *)
(* add_credits returns True appends one purchase_logs entry; no other step *)
(* touches either log.  At rest the logs hold as many entries as there     *)
(* were such debits and such credits.                                      *)
(***************************************************************************)
C13_Counts ==
  AtRest =>
    /\ Len(usage_logs) = Cardinality(ChargedDebits)
    /\ Len(purchase_logs) = Cardinality(SuccessfulCredits)

C13_Step ==
  \A p \in Procs :
    Moves(p) =>
      /\ IF req[p].op = "deduct" /\ pc'[p] = "idle" /\ Last(hist').result = "true"
            /\ pc[p] # "dc_get"
         THEN usage_logs' = Append(usage_logs,
                [Last(usage_logs') EXCEPT !.user_id = req[p].user_id,
                                          !.minutes_used = req[p].minutes])
         ELSE usage_logs' = usage_logs
      /\ IF pc[p] = "ac_log" /\ pc'[p] = "iap_record"
         THEN /\ Len(purchase_logs') = Len(purchase_logs) + 1
              /\ Last(purchase_logs').user_id = req[p].user_id
              /\ Last(purchase_logs').minutes_added = req[p].minutes
              /\ \A i \in DOMAIN purchase_logs : purchase_logs'[i] = purchase_logs[i]
         ELSE purchase_logs' = purchase_logs

\* C13 (amended): one usage_logs entry per successful debit of a metered
\* account, none for admin and unlimited accounts, one purchase_logs entry
\* per successful credit
C13_LogPerCharge == [](C13_Counts) /\ [][C13_Step]_vars

\* one debit of a metered account and one purchase have returned with
\* success, each with its log entry
C13_Witness ==
  /\ AtRest /\ Len(hist) = 2
  /\ Len(usage_logs) = 1
  /\ Cardinality(SuccessfulDebits) = 1
  /\ Cardinality(ChargedDebits) = 1
  /\ Cardinality(SuccessfulCredits) = 1
  /\ Len(purchase_logs) = 1

(***************************************************************************)
(* C14.  A handler that stands at its log append has applied its account   *)
(* update.  Whatever happens to the append, deduct_credits then returns    *)
(* True and add_credits returns True (the purchase goes on to record its   *)
(* transaction).                                                           *)
(***************************************************************************)
C14_Step ==
  \A p \in Procs :
    /\ (pc[p] = "dc_log" /\ Moves(p)) =>
         (pc'[p] = "idle" /\ Last(hist').result = "true")
    /\ (pc[p] = "ac_log" /\ Moves(p)) => pc'[p] = "iap_record"

\* C14: a failing log append never turns an applied debit or credit into a
\* reported failure
C14_LogFailureTolerated == [][C14_Step]_vars

(***************************************************************************)
(* C15.  A translation answered with success and credits_used > 0 has had  *)
(* its call of deduct_credits return True, and no translation whose call   *)
(* of deduct_credits returned False is answered with success.              *)
(***************************************************************************)
IsTranslation(h) == h.req.op = "translate"

\* C15: success with credits_used > 0 only after a debit that succeeded; a
\* debit that fails is never swallowed
C15_ChargedAsReported ==
  \A i \in DOMAIN hist :
    (IsTranslation(hist[i]) /\ hist[i].result = "translated") =>
      /\ hist[i].tr.credits_used > 0 => hist[i].tr.deducted = "true"
      /\ hist[i].tr.deducted \in {"none", "true"}

(***************************************************************************)
(* C16.  A call of deduct_credits that finds no document for the user, or  *)
(* a metered document whose remaining_minutes is below the amount, returns *)
(* False in that step (with the reason) and leaves every collection as it  *)
(* was; a call answered that way has written nothing.                      *)
(***************************************************************************)
C16_Step ==
  \A p \in Procs :
    LET user_data == users[req[p].user_id] IN
    (pc[p] = "dc_get" /\ Moves(p) /\ faults' = faults) =>
      /\ ~user_data.exists =>
           /\ pc'[p] = "idle" /\ Last(hist').result = "false:not_found"
           /\ UNCHANGED store
      /\ (Metered(user_data) /\ user_data.remaining_minutes < req[p].minutes) =>
           /\ pc'[p] = "idle" /\ Last(hist').result = "false:insufficient"
           /\ UNCHANGED store
      /\ (pc'[p] = "idle"
            /\ Last(hist').result \in {"false:not_found", "false:insufficient"}) =>
           UNCHANGED store

C16_Rejections ==
  \A i \in DOMAIN hist :
    hist[i].result \in {"false:not_found", "false:insufficient"} =>
      hist[i].at = "dc_get"

\* C16: a debit rejected for a missing account or a low balance writes nothing
\* and returns the failure
C16_FailedDebitWritesNothing == [](C16_Rejections) /\ [][C16_Step]_vars

\* one debit was rejected for a missing account, one for a low balance, and
\* the store is as it was
C16_Witness ==
  /\ Len(hist) = 2 /\ AtRest
  /\ IsDebit(hist[1], "u2", 12) /\ hist[1].result = "false:not_found"
  /\ IsDebit(hist[2], "u1", 31) /\ hist[2].result = "false:insufficient"
  /\ users = init_users
  /\ users["u1"].remaining_minutes = 30
  /\ usage_logs = <<>>

(***************************************************************************)
(* C17.  A purchase request for a known product whose transaction id is    *)
(* already recorded, and whose read of the record does not fail, is        *)
(* answered with a success response.                                       *)
(***************************************************************************)
C17_Step ==
  \A p \in Procs :
    ( /\ pc[p] = "iap_check"
      /\ Moves(p)
      /\ faults' = faults
      /\ req[p].product_id \in DOMAIN PACKAGES
      /\ iap_transactions[req[p].transaction_id].exists )
    => /\ IapResponse(Last(hist').result).status = 200
       /\ IapResponse(Last(hist').result).success

\* C17: a purchase whose transaction id is already recorded is answered as a
\* success
C17_DuplicateIsSuccess == [][C17_Step]_vars

(***************************************************************************)
(* C18.  A translation whose first get_user_credits met a failing store    *)
(* call is not answered "insufficient credits", is not answered with       *)
(* success, and does not go on to the provider calls.                      *)
(***************************************************************************)
\* C18: a store failure while the account is resolved ends the translation
\* with an error of its own, before the provider calls
C18_StoreErrorSurfaced ==
  /\ \A i \in DOMAIN hist :
       (IsTranslation(hist[i]) /\ hist[i].tr.credits_error) =>
         hist[i].result \notin {"insufficient", "translated"}
  /\ \A p \in Procs : ~tr[p].credits_error

(***************************************************************************)
(* C19.  get_user_credits for a user id without a document goes on to      *)
(* create it whether or not the identity lookup returned an email; the     *)
(* set() writes the document of that user and nothing else.  With the      *)
(* admin email the new account has is_admin, is_unlimited and              *)
(* subscription_type "unlimited"; with any other email, the empty string   *)
(* of a failed lookup included, it has neither flag, subscription_type     *)
(* "free" and remaining_minutes = FREE_MINUTES; the call answers with the  *)
(* account.                                                                *)
(***************************************************************************)
C19_Step ==
  \A p \in Procs :
    LET u == req[p].user_id IN
    /\ (pc[p] = "gc_get" /\ Moves(p) /\ ~users[u].exists) =>
         /\ UNCHANGED store
         /\ \/ pc'[p] = "gc_set" /\ loc'[p].email \in {EmailOf[u], ""}
            \/ pc'[p] = "idle" /\ Last(hist').result = "error_dict"
               /\ faults' = faults + 1
    /\ (pc[p] = "gc_set" /\ Moves(p) /\ faults' = faults) =>
         /\ users'[u].exists
         /\ users'[u].email = loc[p].email
         /\ users'[u].used_minutes = 0
         /\ IF loc[p].email = ADMIN_EMAIL
            THEN /\ users'[u].is_admin /\ users'[u].is_unlimited
                 /\ users'[u].subscription_type = "unlimited"
            ELSE /\ ~users'[u].is_admin /\ ~users'[u].is_unlimited
                 /\ users'[u].subscription_type = "free"
                 /\ users'[u].remaining_minutes = 30
         /\ \A v \in Users \ {u} : users'[v] = users[v]
         /\ UNCHANGED <<usage_logs, purchase_logs, iap_transactions>>
         /\ pc'[p] = "idle" /\ Last(hist').result = "credits"

\* C19: resolving a user id without a record creates one account, admin and
\* unlimited for the admin email, free with 30 minutes otherwise, a failed
\* identity lookup included
C19_Bootstrap == [][C19_Step]_vars

\* the admin account was created, and a free account after a failed lookup
C19_Witness ==
  /\ AtRest /\ Len(hist) = 2
  /\ init_users = [u \in Users |-> NoDoc]
  /\ \A i \in {1, 2} : hist[i].at = "gc_set" /\ hist[i].result = "credits"
  /\ users["u2"].is_admin /\ users["u2"].is_unlimited
  /\ users["u2"].subscription_type = "unlimited"
  /\ users["u1"].email = "" /\ faults = 1
  /\ ~users["u1"].is_admin /\ users["u1"].remaining_minutes = FREE_MINUTES

(***************************************************************************)
(* C20.  get_user_credits does not change remaining_minutes, used_minutes  *)
(* or total_purchased_minutes of an account it finds, whatever runs in     *)
(* parallel: its update of a document without email changes no field but   *)
(* email, is_admin, is_premium, is_unlimited, subscription_type and        *)
(* subscription_expiry, and for a document with email it writes nothing    *)
(* and returns.                                                            *)
(***************************************************************************)
SameBalance(d, e) ==
  /\ d.remaining_minutes = e.remaining_minutes
  /\ d.used_minutes = e.used_minutes
  /\ d.total_purchased_minutes = e.total_purchased_minutes

C20_Step ==
  \A p \in Procs :
    LET u == req[p].user_id IN
    /\ (pc[p] = "gc_update" /\ Moves(p)) =>
         /\ users'[u].exists = users[u].exists
         /\ SameBalance(users'[u], users[u])
         /\ \A v \in Users \ {u} : users'[v] = users[v]
         /\ UNCHANGED <<usage_logs, purchase_logs, iap_transactions>>
    /\ (pc[p] = "gc_get" /\ Moves(p) /\ users[u].exists) => UNCHANGED store
    /\ (pc[p] = "gc_get" /\ Moves(p) /\ users[u].exists
          /\ users[u].email # "absent" /\ faults' = faults) => pc'[p] = "idle"

\* C20: account resolution leaves the balance fields of an existing account
\* alone and writes nothing when the document has an email
C20_BalanceUntouched == [][C20_Step]_vars

\* a document without email was patched while a purchase credited it, and
\* resolved again afterwards
C20_Witness ==
  /\ AtRest /\ Len(hist) = 2
  /\ init_users["u1"] = NewPurchasedDoc(UNLIMITED_MINUTES)
  /\ hist[1].req.op = "get_credits" /\ hist[1].at = "gc_update"
  /\ hist[2].req.op = "iap" /\ hist[2].at = "gc_get" /\ hist[2].req.after = 0
  /\ hist[2].req.minutes = 300
  /\ users["u1"].email = EmailOf["u1"]
  /\ users["u1"].remaining_minutes = UNLIMITED_BALANCE + 300

(***************************************************************************)
(* C21.  Look-ups and purchases of a user without a document, served in    *)
(* parallel with no failing call: the set() of get_user_credits never      *)
(* lands on a document that exists with other balance fields, and once all *)
(* requests have returned the account holds the minutes of every regular   *)
(* purchase that was answered with success.                                *)
(***************************************************************************)
RECURSIVE SumPurchased(_, _)
\* sum of the minutes of the first n answered purchases of u that were
\* answered with success
SumPurchased(u, n) ==
  IF n = 0 THEN 0
  ELSE SumPurchased(u, n - 1) +
       (IF IsPurchase(hist[n], u) /\ hist[n].result = "success"
        THEN hist[n].req.minutes ELSE 0)

C21_AtRest ==
  \A u \in Users :
    ( /\ AtRest /\ faults = 0
      /\ ~init_users[u].exists
      /\ \A i \in DOMAIN hist :
           /\ hist[i].req.user_id = u
           /\ hist[i].req.op = "iap" => hist[i].req.minutes # UNLIMITED_MINUTES
      /\ \A i, j \in DOMAIN hist :
           (i # j /\ hist[i].req.op = "iap" /\ hist[j].req.op = "iap")
             => hist[i].req.transaction_id # hist[j].req.transaction_id
      /\ SumPurchased(u, Len(hist)) > 0 )
    => /\ users[u].exists
       /\ users[u].total_purchased_minutes = SumPurchased(u, Len(hist))
       /\ users[u].remaining_minutes >= SumPurchased(u, Len(hist))

C21_Set ==
  \A p \in Procs :
    (pc[p] = "gc_set" /\ Moves(p) /\ faults' = faults
       /\ users[req[p].user_id].exists) =>
      SameBalance(users'[req[p].user_id], users[req[p].user_id])

\* C21: a resolution in parallel with a purchase or another resolution never
\* overwrites the balance, and every successful purchase shows in it
C21_ResolutionKeepsBalance == [](C21_AtRest) /\ [][C21_Set]_vars

(***************************************************************************)
(* C22.  A call of get_user_credits writes at most once: its read writes   *)
(* nothing, and its set() or update() is its last step.  A second call for *)
(* the same user, started after a first one has returned the account,      *)
(* writes nothing and returns the same entitlement and balance fields.     *)
(***************************************************************************)
C22_Step ==
  \A p \in Procs :
    /\ (pc[p] = "gc_get" /\ Moves(p)) => UNCHANGED store
    /\ (pc[p] \in {"gc_set", "gc_update"} /\ Moves(p)) =>
         /\ pc'[p] = "idle"
         /\ UNCHANGED <<usage_logs, purchase_logs, iap_transactions>>
         /\ \A v \in Users \ {req[p].user_id} : users'[v] = users[v]

C22_Again ==
  ( /\ Len(hist) = 2
    /\ hist[1].req.op = "get_credits" /\ hist[2].req.op = "get_credits"
    /\ hist[1].req.user_id = hist[2].req.user_id
    /\ hist[1].result = "credits" /\ hist[2].result = "credits"
    /\ hist[2].req.after = 1 )
  => /\ hist[2].at = "gc_get"
     /\ CreditsView(hist[2].tr.credits) = CreditsView(hist[1].tr.credits)
     /\ CreditsView(hist[2].tr.credits) = CreditsView(users[hist[2].req.user_id])

\* C22: get_user_credits writes at most once per call, and a second call
\* after the write writes nothing and returns the same view
C22_ResolveOnce == [](C22_Again) /\ [][C22_Step]_vars

\* a document without email was patched by the first call and read by the
\* second, and an account created by the first call was read by the second
C22_Witness ==
  /\ Len(hist) = 2 /\ AtRest
  /\ hist[1].req.op = "get_credits" /\ hist[2].req.op = "get_credits"
  /\ hist[1].req.user_id = hist[2].req.user_id
  /\ hist[1].at \in {"gc_update", "gc_set"} /\ hist[2].at = "gc_get"
  /\ hist[2].req.after = 1
  /\ hist[1].tr.credits.exists
  /\ CreditsView(hist[2].tr.credits) = CreditsView(hist[1].tr.credits)

(***************************************************************************)
(* C23.  Over requests served one after the other, total_purchased_minutes *)
(* and used_minutes of every account never go down from one state to the   *)
(* next.                                                                   *)
(***************************************************************************)
C23_Step ==
  \A u \in Users :
    /\ users'[u].total_purchased_minutes >= users[u].total_purchased_minutes
    /\ users'[u].used_minutes >= users[u].used_minutes

\* C23: total_purchased_minutes and used_minutes never decrease
C23_CountersMonotone == [][C23_Step]_vars

(***************************************************************************)
(* C24.  The step with which the first get_user_credits of a translation   *)
(* returns: the translation goes on to the provider calls if the dict      *)
(* returned has is_admin or is_unlimited set, or remaining_minutes >= the  *)
(* cost, and only then.  Otherwise it is answered at once as insufficient, *)
(* with that dict, deduct_credits not called, no usage_logs entry and the  *)
(* balance fields of the account as they were.  When the read returned the *)
(* dict without a write, the dict is the account.                          *)
(***************************************************************************)
C24_Step ==
  \A p \in Procs :
    ( /\ req[p].op = "translate" /\ tr[p].phase = "check"
      /\ pc'[p] \notin GetCreditsLabels )
    => LET u == req[p].user_id
           passes == pc'[p] = "tr_transcribe"
           credits == IF passes THEN tr'[p].credits ELSE Last(hist').tr.credits
       IN
       /\ passes <=> ( \/ credits.is_admin
                       \/ credits.is_unlimited
                       \/ credits.remaining_minutes >= req[p].minutes )
       /\ (pc[p] = "gc_get" /\ faults' = faults) => credits = users[u]
       /\ ~passes =>
            /\ pc'[p] = "idle"
            /\ Last(hist').result = "insufficient"
            /\ Last(hist').tr.deducted = "none"
            /\ Last(hist').tr.credits_used = 0
            /\ UNCHANGED <<usage_logs, purchase_logs, iap_transactions>>
            /\ users[u].exists => SameBalance(users'[u], users[u])

\* C24: the balance check passes for admin and unlimited accounts, and
\* otherwise exactly when remaining_minutes >= cost; a request that does not
\* pass it calls no provider and debits nothing
C24_SufficiencyCheck == [][C24_Step]_vars

\* a translation of cost 2 took a balance of 3 to 1, and the next one of
\* cost 2 was refused with the balance of 1 in its answer
C24_Witness ==
  /\ Len(hist) = 2 /\ AtRest /\ faults = 0
  /\ IsTranslation(hist[1]) /\ hist[1].result = "translated"
  /\ hist[1].tr.deducted = "true" /\ hist[1].req.minutes = 2
  /\ IsTranslation(hist[2]) /\ hist[2].result = "insufficient"
  /\ hist[2].req.minutes = 2
  /\ hist[2].tr.credits.remaining_minutes = 1
  /\ users["u1"].remaining_minutes = 1
  /\ Len(usage_logs) = 1

(***************************************************************************)
(* C25.  A translation goes through its parts in the order: first          *)
(* get_user_credits and the check, transcription, translation, then        *)
(* deduct_credits (update, then log), then the second get_user_credits.    *)
(* It changes the balance fields of an existing account and usage_logs     *)
(* only in deduct_credits, which it enters from the translation that       *)
(* returned; a translation answered as failed by a provider call has       *)
(* written nothing since its check and has not called deduct_credits.      *)
(***************************************************************************)
\* the positions of each part of process_audio_translation
PhaseLabels(phase) ==
  IF phase \in {"check", "final"} THEN GetCreditsLabels
  ELSE IF phase = "provider" THEN {"tr_transcribe", "tr_translate"}
  ELSE IF phase = "debit" THEN DeductLabels
  ELSE {"idle"}

C25_Places ==
  \A p \in Procs :
    /\ pc[p] \in PhaseLabels(tr[p].phase) \/ req[p].op # "translate"
    /\ req[p].op = "translate" <=> tr[p].phase # "none"

C25_Step ==
  \A p \in Procs :
    (req[p].op = "translate" /\ Moves(p)) =>
      LET u == req[p].user_id IN
      /\ \/ pc[p] = "gc_get" /\ pc'[p] \in {"gc_set", "gc_update"}
         \/ tr[p].phase = "check" /\ pc'[p] \in {"tr_transcribe", "idle"}
         \/ pc[p] = "tr_transcribe" /\ pc'[p] \in {"tr_translate", "idle"}
         \/ pc[p] = "tr_translate" /\ pc'[p] \in {"dc_get", "gc_get", "idle"}
            /\ tr'[p].phase \in {"debit", "final", "none"}
         \/ pc[p] = "dc_get" /\ pc'[p] \in {"dc_update", "gc_get"}
            /\ tr'[p].phase \in {"debit", "final"}
         \/ pc[p] = "dc_update" /\ pc'[p] \in {"dc_log", "gc_get"}
            /\ tr'[p].phase \in {"debit", "final"}
         \/ pc[p] = "dc_log" /\ pc'[p] = "gc_get" /\ tr'[p].phase = "final"
         \/ tr[p].phase = "final" /\ pc'[p] = "idle"
      /\ (pc[p] # "dc_update" /\ users[u].exists) => SameBalance(users'[u], users[u])
      /\ pc[p] # "dc_log" => usage_logs' = usage_logs
      /\ tr[p].phase = "provider" =>
           /\ UNCHANGED store
           /\ pc'[p] = "idle" =>
                /\ Last(hist').result = "failed"
                /\ Last(hist').tr.deducted = "none"
                /\ Last(hist').tr.credits_used = 0

\* C25: resolve, check, transcribe and translate, debit, log, in that order;
\* a request whose provider call fails is not debited
C25_DebitAfterProviders == [](C25_Places) /\ [][C25_Step]_vars

(***************************************************************************)
(* C26.  Served one after the other, a purchase of a regular package       *)
(* (minutes_to_add # -1) whose write is made adds minutes_to_add to        *)
(* remaining_minutes and to total_purchased_minutes of an existing         *)
(* account, makes it 'premium' with an expiry 365 days ahead and leaves    *)
(* used_minutes as it was; for a user without an account it creates one    *)
(* with remaining_minutes = total_purchased_minutes = minutes_to_add and   *)
(* used_minutes = 0.                                                       *)
(***************************************************************************)
C26_Step ==
  \A p \in Procs :
    (pc[p] = "ac_write" /\ pc'[p] = "ac_log" /\ req[p].minutes # UNLIMITED_MINUTES) =>
      LET u == req[p].user_id
          m == req[p].minutes
          old == users[u]
          new == users'[u]
      IN  /\ new.exists
          /\ new.subscription_type = "premium"
          /\ new.subscription_expiry = "plus365"
          /\ IF old.exists
             THEN /\ new.remaining_minutes = old.remaining_minutes + m
                  /\ new.total_purchased_minutes = old.total_purchased_minutes + m
                  /\ new.used_minutes = old.used_minutes
             ELSE /\ new.remaining_minutes = m
                  /\ new.total_purchased_minutes = m
                  /\ new.used_minutes = 0

\* C26: a regular purchase adds exactly minutes_to_add to the balance and to
\* the purchased total, or creates the account with them
C26_RegularCredit == [][C26_Step]_vars

\* a free account was debited 12 minutes and then bought 300: it holds 318,
\* has bought 300 and used 12, and the purchase was answered as a success
C26_Witness ==
  /\ Len(hist) = 2 /\ AtRest
  /\ hist[1].req.op = "deduct" /\ hist[1].result = "true" /\ hist[1].req.minutes = 12
  /\ hist[2].req.op = "iap" /\ hist[2].result = "success" /\ hist[2].req.minutes = 300
  /\ init_users["u1"] = InitialCredits(EmailOf["u1"])
  /\ users["u1"].remaining_minutes = FREE_MINUTES - 12 + 300
  /\ users["u1"].total_purchased_minutes = 300
  /\ users["u1"].used_minutes = 12
  /\ users["u1"].subscription_type = "premium"

(***************************************************************************)
(* C27.  With the requests of one user served one after the other and      *)
(* those of different users in parallel: a step of a debit, purchase or    *)
(* look-up of one user leaves the account of every other user as it is;    *)
(* every write lands on the account as the handler read it, so that the    *)
(* other user's requests change nothing of what it does; and when all      *)
(* requests are answered, with no failing store call, each metered account *)
(* holds its initial balance plus the regular purchases answered with      *)
(* success minus the debits that returned True, however the requests of    *)
(* the two users were interleaved.                                         *)
(***************************************************************************)
C27_Frame ==
  \A p \in Procs :
    Moves(p) => \A v \in Users \ {IF pc[p] = "idle" THEN req'[p].user_id
                                  ELSE req[p].user_id} : users'[v] = users[v]

C27_Current ==
  \A p \in Procs :
    LET u == req[p].user_id IN
    /\ pc[p] \in {"dc_update", "ac_write"} => loc[p] = users[u]
    /\ pc[p] = "gc_set" => ~users[u].exists
    /\ pc[p] = "gc_update" =>
         users[u].exists /\ loc[p] = [users[u] EXCEPT !.email = loc[p].email]

C27_AtRest ==
  \A u \in Users :
    ( /\ AtRest /\ faults = 0
      /\ Metered(init_users[u])
      /\ \A i \in DOMAIN hist :
           IsPurchase(hist[i], u) => hist[i].req.minutes # UNLIMITED_MINUTES )
    => /\ users[u].remaining_minutes =
            init_users[u].remaining_minutes + SumPurchased(u, Len(hist))
              - SumDebited(u, Len(hist))
       /\ users[u].used_minutes = init_users[u].used_minutes + SumDebited(u, Len(hist))
       /\ users[u].total_purchased_minutes =
            init_users[u].total_purchased_minutes + SumPurchased(u, Len(hist))

\* C27: requests of different users do not touch each other's account, and
\* each account ends as its own requests leave it
C27_Independent == [](C27_Current /\ C27_AtRest) /\ [][C27_Frame]_vars

\* a debit of u1 and a purchase of u2 overlapped; u1 holds 18 minutes
\* and u2, created by the purchase, 300
C27_Witness ==
  /\ Len(hist) = 2 /\ AtRest /\ faults = 0
  /\ hist[2].req.after = 0
  /\ \E i, j \in {1, 2} :
       /\ IsDebit(hist[i], "u1", 12) /\ hist[i].result = "true"
       /\ IsPurchase(hist[j], "u2") /\ hist[j].result = "success"
       /\ hist[j].req.minutes = 300
  /\ Metered(init_users["u1"]) /\ ~init_users["u2"].exists
  /\ users["u1"].remaining_minutes = FREE_MINUTES - 12
  /\ users["u2"].remaining_minutes = 300

(***************************************************************************)
(* C28.  The cost of a recording within the limit is its length times      *)
(* (cost_per_minute / 0.006), cost_per_minute being the rate of the        *)
(* configured audio model plus the rate of the configured translation      *)
(* model: with rates in thousandths, length 2 and rate 12 give 4; a        *)
(* request of the basic or premium tier costs 7/6 of the length, one of    *)
(* the ultra tier 9/6.                                                     *)
(***************************************************************************)
C28_Formula ==
  (quote # NoQuote /\ ~quote.too_long) =>
    /\ quote.cost_per_minute = audio_cost(quote.audio_model)
                                 + translation_cost(quote.translation_model)
    /\ quote.cost_minutes * 6 = quote.duration_minutes * quote.cost_per_minute

C28_Tiers ==
  (~quote.too_long /\ quote.tier # "none") =>
    /\ quote.tier \in {"basic", "premium"} =>
         quote.cost_per_minute = 7 /\ quote.cost_minutes * 6 = 7 * quote.duration_minutes
    /\ quote.tier = "ultra" =>
         quote.cost_per_minute = 9 /\ quote.cost_minutes * 6 = 9 * quote.duration_minutes

\* C28: cost = length * (rate / 0.006), the rate being the sum of the two
\* model rates; 4 for length 2 at rate 0.012; 7/6, 7/6 and 9/6 of the length
\* for the basic, premium and ultra tiers
C28_Cost ==
  /\ C28_Formula
  /\ C28_Tiers
  /\ NormalizedCost(2000, 12) = 4000

\* a recording of 1.998 minutes was priced on the ultra tier at 2.997 minutes
C28_Witness ==
  /\ quote.tier = "ultra" /\ quote.duration_minutes = 1998
  /\ quote.cost_per_minute = 9 /\ quote.cost_minutes = 2997
  /\ model_config.translation_model = "gpt-4o"

(***************************************************************************)
(* C29.  In one server process, with other translations and POST /config   *)
(* served while a translation awaits: the audio model, the translation     *)
(* model and the quality tier of the usage_logs entry of a translation are *)
(* those its provider calls were made with, and so are those its cost was  *)
(* computed on.                                                            *)
(***************************************************************************)
C29_Step ==
  \A p \in Procs :
    (req[p].op = "translate" /\ pc[p] = "dc_log" /\ Len(usage_logs') > Len(usage_logs)) =>
      LET entry == Last(usage_logs')
          used == tr[p].used_config
      IN  /\ entry.audio_model = used.audio_model
          /\ entry.translation_model = used.translation_model
          /\ entry.quality_tier = used.quality_tier
          /\ tr[p].cost_config = used

\* C29: the usage log and the cost of a translation show the models and the
\* tier the translation was made with
C29_LoggedAsProcessed == [][C29_Step]_vars

(***************************************************************************)
(* C30.  A purchase request whose product_id is not a key of PACKAGES is   *)
(* answered with HTTP status 400, and the answer is given without a write  *)
(* to users, purchase_logs or iap_transactions.                            *)
(***************************************************************************)
C30_Step ==
  \A p \in Procs :
    ( /\ pc[p] = "iap_check" /\ Moves(p) /\ faults' = faults
      /\ req[p].product_id \notin DOMAIN PACKAGES )
    => /\ pc'[p] = "idle"
       /\ IapResponse(Last(hist').result).status = 400
       /\ UNCHANGED store

\* C30: an unknown product is rejected with status 400 and nothing is written
C30_Rejected400 == [][C30_Step]_vars

(***************************************************************************)
(* C31.  The write of an accepted purchase credits the minutes that        *)
(* PACKAGES gives for the product_id of the request, and an account        *)
(* becomes unlimited only through the product whose minutes are -1.        *)
(***************************************************************************)
C31_Step ==
  \A p \in Procs :
    (pc[p] = "ac_write" /\ pc'[p] = "ac_log") =>
      LET u == req[p].user_id
          catalog == PACKAGES[req[p].product_id]
      IN  /\ users'[u] = IF users[u].exists
                         THEN CreditedDoc(users[u], users[u], catalog)
                         ELSE NewPurchasedDoc(catalog)
          /\ (users'[u].is_unlimited /\ ~users[u].is_unlimited) =>
               catalog = UNLIMITED_MINUTES

\* C31: a purchase credits the minutes of the catalog for its product
C31_CatalogMinutes == [][C31_Step]_vars

(***************************************************************************)
(* C32.  Served one after the other: a purchase whose call of add_credits  *)
(* returns False is answered with an error, no iap_transactions record     *)
(* exists for its transaction id, and the account and purchase_logs are    *)
(* what they were when the request arrived.                                *)
(***************************************************************************)
C32_Step ==
  \A p \in Procs :
    (req[p].op = "iap" /\ pc[p] \in AddCreditsLabels /\ pc'[p] = "idle") =>
      LET u == req[p].user_id IN
      /\ IapResponse(Last(hist').result).status >= 400
      /\ ~IapResponse(Last(hist').result).success
      /\ iap_transactions' = iap_transactions
      /\ ~iap_transactions'[req[p].transaction_id].exists
      /\ purchase_logs' = purchase_logs
      /\ users'[u] = IF pc[p] = "ac_get" THEN users[u] ELSE loc[p]

\* C32: a failed add_credits leaves no transaction record, an error answer and
\* the account and purchase_logs as they were before the request
C32_FailedCreditLeavesNothing == [][C32_Step]_vars

(***************************************************************************)
(* C33.  A translation whose recording is longer than                      *)
(* MAX_RECORDING_MINUTES is answered at the length check: it never reaches *)
(* get_user_credits, save_audio_file, a provider call or deduct_credits,   *)
(* and its answer is given with the store and TEMP_DIR as they were.       *)
(***************************************************************************)
C33_Place ==
  \A p \in Procs :
    req[p].duration_minutes > MAX_RECORDING_MINUTES =>
      /\ pc[p] = "tr_head"
      /\ tr[p].temp_file = 0 /\ tr[p].used_config = NoConfig
      /\ tr[p].deducted = "none" /\ tr[p].credits = NoDoc

C33_Step ==
  \A p \in Procs :
    (req[p].duration_minutes > MAX_RECORDING_MINUTES /\ Moves(p)) =>
      /\ pc'[p] = "idle"
      /\ Last(hist').result = "too_long"
      /\ Last(hist').req = req[p]
      /\ UNCHANGED <<store, temp_files>>

\* C33: a recording above the limit is rejected before the account is
\* resolved, with no write, no file, no provider call and no debit
C33_RejectedAtLengthCheck == [](C33_Place) /\ [][C33_Step]_vars

\* a recording of 2.004 minutes of a user without an account was rejected:
\* there is still no account, no file and no log entry
C33_Witness ==
  /\ Len(hist) = 1 /\ AtRest
  /\ hist[1].result = "too_long" /\ hist[1].req.duration_minutes = 2004
  /\ ~init_users["u1"].exists /\ ~users["u1"].exists
  /\ temp_files = {} /\ usage_logs = <<>>

(***************************************************************************)
(* C34.  The whisper-1 fallback of transcribe_audio_premium.               *)
(***************************************************************************)
\* a fallback is in progress exactly at "tr_fallback", and there is never a
\* second one
C34_Once ==
  \A p \in Procs :
    /\ tr[p].fallbacks \in {0, 1}
    /\ pc[p] = "tr_fallback" => tr[p].fallbacks = 1
    /\ pc[p] = "tr_primary" => tr[p].fallbacks = 0

\* the request of p ends in this step as a failure without a debit
C34_FailsUndebited(p) ==
  /\ pc'[p] = "idle"
  /\ Last(hist').result = "failed"
  /\ Last(hist').req = req[p]
  /\ Last(hist').tr.deducted = "none"
  /\ UNCHANGED store

C34_Step ==
  \A p \in Procs :
    /\ (pc[p] = "tr_primary" /\ Moves(p) /\ faults' > faults) =>
         IF model_config.enable_fallback /\ model_config.audio_model # "whisper-1"
           THEN pc'[p] = "tr_fallback" /\ tr'[p].fallbacks = 1
           ELSE C34_FailsUndebited(p) /\ Last(hist').tr.fallbacks = 0
    /\ (pc[p] = "tr_fallback" /\ Moves(p)) =>
         IF faults' > faults
           THEN C34_FailsUndebited(p)
           ELSE /\ pc'[p] = "tr_translate"
                /\ tr'[p].used_config.audio_model = "whisper-1"
                /\ tr'[p].fallbacks = 1

\* C34: after a failed primary transcription whisper-1 is tried once, exactly
\* when enable_fallback is set and the audio model is not whisper-1; its text
\* is used when it succeeds, otherwise the request fails without a debit
C34_FallbackOnce == [](C34_Once) /\ [][C34_Step]_vars

\* one request was translated from the text of the fallback, another failed
\* at once, undebited, because the audio model was whisper-1 already
C34_Witness ==
  /\ Len(hist) = 2 /\ AtRest
  /\ \E i, j \in 1..2 :
       /\ hist[i].result = "translated" /\ hist[i].tr.fallbacks = 1
       /\ hist[i].tr.used_config.audio_model = "whisper-1"
       /\ hist[j].result = "failed" /\ hist[j].tr.fallbacks = 0
       /\ hist[j].tr.temp_file # 0 /\ hist[j].tr.deducted = "none"

(***************************************************************************)
(* C35.  The temporary file of a translation.                              *)
(***************************************************************************)
\* p answers in this step a request whose file had been saved
C35_Completes(p) == tr[p].temp_file # 0 /\ pc[p] # "idle" /\ pc'[p] = "idle"

\* a request that saved its file is answered
C35_Answered == \A p \in Procs : (tr[p].temp_file # 0) ~> (pc[p] = "idle")

C35_RemovedStep ==
  \A p \in Procs : C35_Completes(p) => tr[p].temp_file \notin temp_files'

\* as stated: every request that saved a file is answered, and its file is
\* gone when it is
C35_RemovedOnCompletion == C35_Answered /\ [][C35_RemovedStep]_vars

C35_CleanedStep ==
  \A p \in Procs :
    C35_Completes(p) =>
      /\ Last(hist').req = req[p]
      /\ Last(hist').tr.temp_file = tr[p].temp_file
      /\ IF Last(hist').unlinked
           THEN temp_files' = temp_files \ {tr[p].temp_file}
           ELSE temp_files' = temp_files

\* C35: every request that saved a temporary file is eventually answered,
\* and on every path cleanup_temp_file has run by then: the file is gone
\* unless its unlink raised, and no other file was touched
C35_CleanedOnCompletion == C35_Answered /\ [][C35_CleanedStep]_vars

\* a request failed after its file was saved, and the file is gone
C35_Witness ==
  \E i \in 1..Len(hist) :
    /\ hist[i].result = "failed"
    /\ hist[i].tr.temp_file # 0 /\ hist[i].unlinked
    /\ hist[i].tr.temp_file \notin temp_files

====
